---- MODULE Spec2Model ----
(***************************************************************************)
(* The Guython execution engine (interpreter/guython/core): the program    *)
(* driver run_program, the per-line dispatcher run_line/_process_command,  *)
(* the if/else/loop stacks, function definition and call, goto and eval.   *)
(*                                                                         *)
(* A source line is modelled after tokenisation: a record with its indent  *)
(* (the count of leading '.'), its command kind `cmd` (the prefix the      *)
(* dispatcher's startswith cascade recognises) and the fields the handler  *)
(* parses out of the text.  An expression is modelled as the tree that     *)
(* ast.parse builds from its text.  One step of the model is one           *)
(* iteration of run_program's loop: the whole of run_line for one source   *)
(* line, nested calls included, followed by the driver's handling of the   *)
(* outcome.                                                                *)
(***************************************************************************)
EXTENDS Integers, Sequences, FiniteSets, TLC

VARIABLES
    program_lines,        \* self.program_lines: the lines given to run_program
    line_number,          \* run_program's local cursor (0-based)
    goto_jump_count,      \* self.goto_jump_count
    pc,                   \* where run_program is: "running", "returned", "raised", "exited"
                          \* (or where a text is: "text", "stripped", "stripped again")
    raised,               \* the message of the error run_program raised, "" if none
    variables,            \* self.variables
    functions,            \* self.functions: name -> [args, body]
    loop_stack,           \* self.loop_stack: <<condition, indent, block>> frames
    if_stack,             \* self.if_stack: <<is_true, indent>> frames
    else_stack,           \* self.else_stack: <<should_run, indent>> entries
    defining_function,    \* self.defining_function: <<>> (None) or <<name, indent>>
    function_stack,       \* self.function_stack: body lines captured so far
    current_line_number,  \* self.current_line_number
    aliases,              \* self.aliases
    last_output,          \* self.last_output
    output,               \* what has been written to stdout, in order
    handle_while,         \* whether the interpreter object has a _handle_while attribute
    original_line,        \* the text given to _strip_comments, as a sequence of characters
    result,               \* what _strip_comments returned for it, and for that again
    dispatched            \* how many times run_program's loop has called run_line

vars == <<program_lines, line_number, goto_jump_count, pc, raised, variables, functions,
          loop_stack, if_stack, else_stack, defining_function, function_stack,
          current_line_number, aliases, last_output, output, handle_while,
          original_line, result, dispatched>>

(***************************************************************************)
(* Program constants.                                                      *)
(***************************************************************************)
MAX_LOOP_ITERATIONS == 10000

goto_max_jumps == 1000

(***************************************************************************)
(* Values.  Every value carries its Python type.                           *)
(***************************************************************************)
IntV(n) == [t |-> "int", n |-> n]

StrV(code) == [t |-> "str", code |-> code]

NoneV == [t |-> "none"]

\* a Python list
ListV(items) == [t |-> "list", items |-> items]

\* a bound method of a host object: getattr(self, attr)
MethodV(self, attr) == [t |-> "method", self |-> self, attr |-> attr]

EmptyMap == [k \in {} |-> NoneV]

\* d[k] = v on a dict
Bind(d, k, v) == [n \in (DOMAIN d) \cup {k} |-> IF n = k THEN v ELSE d[n]]

(***************************************************************************)
(* Expressions, as ast.parse(expr, mode='eval') builds them.               *)
(***************************************************************************)
Lit(n) == [op |-> "lit", n |-> n]

Var(id) == [op |-> "var", id |-> id]

Add(l, r) == [op |-> "+", l |-> l, r |-> r]

Lt(l, r) == [op |-> "<", l |-> l, r |-> r]

Eq(l, r) == [op |-> "==", l |-> l, r |-> r]

\* a quoted string literal whose text is the source line `code`
Str(code) == [op |-> "str", code |-> code]

Sub(l, r) == [op |-> "-", l |-> l, r |-> r]

\* l ** r
Pow(l, r) == [op |-> "**", l |-> l, r |-> r]

\* l ^ r, which ast.parse reads as the bitwise exclusive or of Python
Xor(l, r) == [op |-> "^", l |-> l, r |-> r]

\* func(args)
Call(func, args) == [op |-> "call", func |-> func, args |-> args]

\* name(): what evaluate's rewriting makes of the call marker name_
CallExpr(fn) == Call(Var(fn), <<>>)

\* obj.attr
Attr(obj, attr) == [op |-> "attr", obj |-> obj, attr |-> attr]

\* [items]: an array literal, which only _evaluate_argument understands
ListLit(items) == [op |-> "list", items |-> items]

\* text that ast.parse rejects
BadExpr == [op |-> "bad"]

\* the names of SAFE_FUNCTIONS
SAFE_FUNCTIONS == {"abs", "round", "int", "float", "str", "len", "max", "min",
                   "sum", "sqrt", "sin", "cos", "tan", "pi", "e"}

(***************************************************************************)
(* Source lines after _strip_comments and _get_indent_level.               *)
(***************************************************************************)
Blank == [indent |-> 0, cmd |-> "blank"]

Assign(d, name, e) == [indent |-> d, cmd |-> "assign", name |-> name, expr |-> e]

PrintL(d, e) == [indent |-> d, cmd |-> "print", expr |-> e]

\* print <e1>, <e2>, ...
PrintAllL(d, exprs) == [indent |-> d, cmd |-> "print", expr |-> [op |-> "chunks", items |-> exprs]]

ExprL(d, e) == [indent |-> d, cmd |-> "expr", expr |-> e]

IfL(d, e) == [indent |-> d, cmd |-> "if", expr |-> e]

ElseL(d) == [indent |-> d, cmd |-> "else"]

WhileL(d, e) == [indent |-> d, cmd |-> "while", expr |-> e]

\* def<name>_ <args>; wellformed is FALSE for text with no '_' left in it
DefL(d, name, args) ==
    [indent |-> d, cmd |-> "def", name |-> name, args |-> args, wellformed |-> TRUE]

CallL(d, name, args) == [indent |-> d, cmd |-> "call", name |-> name, args |-> args]

GotoL(d, n) == [indent |-> d, cmd |-> "goto", target |-> n]

AliasL(d, name, target) == [indent |-> d, cmd |-> "alias", name |-> name, target |-> target]

\* <head> <expr>: a line whose first word is no keyword, such as "p x"
WordL(d, head, e) == [indent |-> d, cmd |-> "word", head |-> head, expr |-> e]

EvalL(d, e) == [indent |-> d, cmd |-> "eval", expr |-> e]

ExitL(d) == [indent |-> d, cmd |-> "exit_"]

\* <name>[<index>]...: a line with brackets and no '='
ArrayReadL(d, name, indices) ==
    [indent |-> d, cmd |-> "index", name |-> name, indices |-> indices]

\* arr[1]=<expr>: a line with '=', which the dispatcher takes for the
\* assignment of <expr> to the name "arr[1]"
ArrayWriteL(d, e) == Assign(d, "arr[1]", e)

\* the characters of a name; the names of one character are their own spelling
Spelling(name) ==
    CASE name = "ifx" -> <<"i", "f", "x">>
      [] name = "defx" -> <<"d", "e", "f", "x">>
      [] name = "whilex" -> <<"w", "h", "i", "l", "e", "x">>
      [] name = "gotox" -> <<"g", "o", "t", "o", "x">>
      [] name = "elsex" -> <<"e", "l", "s", "e", "x">>
      [] name = "printer" -> <<"p", "r", "i", "n", "t", "e", "r">>
      [] name = "a_b" -> <<"a", "_", "b">>
      [] name = "abs" -> <<"a", "b", "s">>
      [] name = "print" -> <<"p", "r", "i", "n", "t">>
      [] name = "if" -> <<"i", "f">>
      [] OTHER -> <<name>>

\* code.startswith(prefix) for a line that begins with name
StartsWith(name, prefix) ==
    /\ Len(Spelling(name)) >= Len(prefix)
    /\ SubSeq(Spelling(name), 1, Len(prefix)) = prefix

\* re.search(r'(\w+)_', name): an underscore with a word character before it
HasCallMarker(name) ==
    \E k \in 2..Len(Spelling(name)) : Spelling(name)[k] = "_"

\* the line <name>=<expr> as the startswith cascade of _process_command
\* classifies its text: what follows the keyword is no expression, no
\* definition and no line number
AssignText(d, name, e) ==
    CASE StartsWith(name, <<"e", "l", "s", "e">>) -> ElseL(d)
      [] StartsWith(name, <<"d", "e", "f">>) ->
            [DefL(d, name, <<>>) EXCEPT
                !.wellformed = \E k \in 1..Len(Spelling(name)) : Spelling(name)[k] = "_"]
      [] StartsWith(name, <<"w", "h", "i", "l", "e">>) -> WhileL(d, BadExpr)
      [] StartsWith(name, <<"i", "f">>) -> IfL(d, BadExpr)
      [] StartsWith(name, <<"g", "o", "t", "o">>) -> GotoL(d, -1)
      [] StartsWith(name, <<"p", "r", "i", "n", "t">>) -> PrintL(d, BadExpr)
      [] OTHER -> Assign(d, name, e)

(***************************************************************************)
(* ExpressionEvaluator.                                                    *)
(***************************************************************************)
BoolV(b) == [t |-> "bool", b |-> b]

IsNum(v) == v.t \in {"int", "bool"}

\* the integer a Python int or bool counts as in arithmetic and comparison
Num(v) == IF v.t = "int" THEN v.n ELSE IF v.b THEN 1 ELSE 0

\* bool(value)
Truthy(v) ==
    CASE v.t = "int" -> v.n # 0
      [] v.t = "bool" -> v.b
      [] v.t = "str" -> v.code # Blank
      [] v.t = "list" -> v.items # <<>>
      [] v.t \in {"builtin", "method"} -> TRUE
      [] OTHER -> FALSE

Ok(v) == [ok |-> TRUE, v |-> v]

\* Only({ F(t) : t \in {e} }) is "let t be e in F(t)" with e computed once,
\* whatever the number of uses of t
Only(S) == CHOOSE v \in S : TRUE

\* an exception of this kind was raised
Error(kind) == [ok |-> FALSE, v |-> NoneV, exc |-> kind]

\* evaluate raised GuythonRuntimeError
Fail == Error("GuythonRuntimeError")

RECURSIVE RewriteCallMarker(_)
RECURSIVE Mangle(_)
\* re.sub(r'(\w+)_', r'\1()', expr) on the text of an expression: the text
\* of a string literal is rewritten with the rest
RewriteCallMarker(e) ==
    CASE e.op = "str" -> Str(Mangle(e.code))
      [] e.op = "var" /\ HasCallMarker(e.id) ->
            \* a_b becomes a()b, which ast.parse rejects
            BadExpr
      [] e.op \in {"+", "-", "<", "==", "**", "^"} ->
            [e EXCEPT !.l = RewriteCallMarker(e.l), !.r = RewriteCallMarker(e.r)]
      [] e.op = "call" ->
            [e EXCEPT !.func = RewriteCallMarker(e.func),
                      !.args = [j \in 1..Len(e.args) |-> RewriteCallMarker(e.args[j])]]
      [] e.op = "attr" -> [e EXCEPT !.obj = RewriteCallMarker(e.obj)]
      [] OTHER -> e

\* the same rewriting on the text of a source line: name_ becomes name()
Mangle(line) ==
    CASE line.cmd = "call" ->
            ExprL(line.indent, IF line.args = <<>> THEN CallExpr(line.name) ELSE BadExpr)
      [] line.cmd = "exit_" -> ExprL(line.indent, CallExpr("exit"))
      [] line.cmd = "def" -> [line EXCEPT !.wellformed = FALSE]
      [] line.cmd \in {"assign", "print", "expr", "if", "while", "word", "eval"} ->
            [line EXCEPT !.expr = RewriteCallMarker(line.expr)]
      [] line.cmd = "index" ->
            [line EXCEPT !.indices =
                [j \in 1..Len(line.indices) |-> RewriteCallMarker(line.indices[j])]]
      [] OTHER -> line

\* callable(value): of the allow-list, pi and e are numbers
Callable(v) == (v.t = "builtin" /\ v.id \notin {"pi", "e"}) \/ v.t = "method"

\* the attributes that hasattr finds on a host object, of those that the
\* programs modelled name
HostAttributes(v) ==
    CASE v.t = "str" -> {"upper"}
      [] v.t \in {"int", "bool"} -> {"real"}
      [] v.t = "list" -> {"append"}
      [] OTHER -> {}

\* getattr(obj, attr) for an attribute that hasattr found
GetAttr(v, attr) ==
    IF attr = "real" THEN IntV(Num(v)) ELSE MethodV(v, attr)

\* str.upper() on the texts that the programs modelled hold
Upper(code) ==
    IF code = ExprL(0, Var("abc")) THEN ExprL(0, Var("ABC")) ELSE code

\* func(*args) for a callable: a bound method of a host object, or abs
CallValue(func, args) ==
    CASE func.t = "method" /\ func.attr = "upper" /\ args = <<>> ->
            Ok(StrV(Upper(func.self.code)))
      [] func.t = "method" /\ func.attr = "append" /\ Len(args) = 1 -> Ok(NoneV)
      [] func.t = "builtin" /\ func.id = "abs" /\ Len(args) = 1 /\ IsNum(args[1]) ->
            Ok(IntV(IF Num(args[1]) < 0 THEN 0 - Num(args[1]) ELSE Num(args[1])))
      [] OTHER ->
            \* a TypeError of the host, raised again as "Error calling function"
            Error("GuythonRuntimeError")

\* LookupNone with None for a name that is not bound
LookupNone(id, env) ==
    IF id \in DOMAIN env THEN Ok(env[id])
    ELSE IF id \in SAFE_FUNCTIONS THEN Ok([t |-> "builtin", id |-> id])
    ELSE Ok(NoneV)

\* the ast.Name branch of _eval_node
Lookup(id, env) ==
    IF id \in DOMAIN env THEN Ok(env[id])
    ELSE IF id \in SAFE_FUNCTIONS THEN Ok([t |-> "builtin", id |-> id])
    ELSE Error("GuythonRuntimeError")

RECURSIVE Power(_, _)
\* SAFE_OPERATIONS['**'], operator.pow, on an int and an exponent that is
\* not negative
Power(a, b) == IF b = 0 THEN 1 ELSE a * Power(a, b - 1)

RECURSIVE EvalNode(_, _)
\* _eval_node: the result, or the exception raised
EvalNode(e, env) ==
    CASE e.op = "call" ->
            LET func == EvalNode(e.func, env)
                args == [j \in 1..Len(e.args) |-> EvalNode(e.args[j], env)]
            IN  IF ~func.ok THEN func
                ELSE IF \E j \in 1..Len(args) : ~args[j].ok
                THEN args[CHOOSE j \in 1..Len(args) :
                            ~args[j].ok /\ \A k \in 1..(j - 1) : args[k].ok]
                ELSE IF Callable(func.v)
                THEN CallValue(func.v, [j \in 1..Len(args) |-> args[j].v])
                ELSE Error("GuythonRuntimeError")  \* Not callable
      [] e.op = "attr" ->
            LET obj == EvalNode(e.obj, env)
            IN  IF ~obj.ok THEN obj
                ELSE IF e.attr \in HostAttributes(obj.v) THEN Ok(GetAttr(obj.v, e.attr))
                ELSE Error("GuythonRuntimeError")  \* Attribute not found
      [] e.op = "lit" -> Ok(IntV(e.n))
      [] e.op = "str" -> Ok(StrV(e.code))
      [] e.op = "var" -> Lookup(e.id, env)
      [] e.op \in {"+", "-"} ->
            LET l == EvalNode(e.l, env)
                r == EvalNode(e.r, env)
            IN  IF ~l.ok THEN l
                ELSE IF ~r.ok THEN r
                ELSE IF IsNum(l.v) /\ IsNum(r.v)
                THEN Ok(IntV(IF e.op = "+" THEN Num(l.v) + Num(r.v)
                             ELSE Num(l.v) - Num(r.v)))
                ELSE \* int + str; no program modelled adds two strings or lists
                     Error("TypeError")
      [] e.op = "**" ->
            LET l == EvalNode(e.l, env)
                r == EvalNode(e.r, env)
            IN  IF ~l.ok THEN l
                ELSE IF ~r.ok THEN r
                ELSE IF IsNum(l.v) /\ IsNum(r.v) /\ Num(r.v) >= 0
                THEN Ok(IntV(Power(Num(l.v), Num(r.v))))
                ELSE \* no program modelled has another exponent
                     Error("TypeError")
      [] e.op = "^" ->
            LET l == EvalNode(e.l, env)
                r == EvalNode(e.r, env)
            IN  IF ~l.ok THEN l
                ELSE IF ~r.ok THEN r
                ELSE \* BitXor is not in op_map: Unsupported operation
                     Error("GuythonRuntimeError")
      [] e.op = "<" ->
            LET l == EvalNode(e.l, env)
                r == EvalNode(e.r, env)
            IN  IF ~l.ok THEN l
                ELSE IF ~r.ok THEN r
                ELSE IF IsNum(l.v) /\ IsNum(r.v) THEN Ok(BoolV(Num(l.v) < Num(r.v)))
                ELSE Error("TypeError")
      [] e.op = "==" ->
            LET l == EvalNode(e.l, env)
                r == EvalNode(e.r, env)
            IN  IF ~l.ok THEN l
                ELSE IF ~r.ok THEN r
                ELSE IF IsNum(l.v) /\ IsNum(r.v) THEN Ok(BoolV(Num(l.v) = Num(r.v)))
                ELSE Ok(BoolV(l.v = r.v))
      [] OTHER -> Error("GuythonRuntimeError")  \* Unsupported AST node

\* the exception ast.parse or _eval_node raises inside evaluate's try block
Parsed(e, env) ==
    IF e.op = "bad" THEN Error("SyntaxError") ELSE EvalNode(e, env)

\* ExpressionEvaluator(variables, SAFE_FUNCTIONS).evaluate(expr)
Evaluate(e, env) ==
    Only({ IF r.ok THEN r ELSE Fail : r \in {Parsed(RewriteCallMarker(e), env)} })

(***************************************************************************)
(* The interpreter object, as a record `s` threaded through the handlers.  *)
(* s.exc is the exception in flight: "none", "goto" (GuythonGotoException  *)
(* with s.target), "GuythonSyntaxError", "GuythonRuntimeError",            *)
(* "AttributeError", or "exit" (os._exit ended the process).               *)
(***************************************************************************)
Raise(s, kind, msg) == [s EXCEPT !.exc = kind, !.msg = msg]

\* print(...) of a value
Emit(s, v) == [s EXCEPT !.output = Append(@, [k |-> "print", v |-> v])]

ErrorPiece == [t |-> "text", s |-> "[Error]"]

Keywords == {"import", "print", "if", "while", "def", "goto", "eval"}

\* the names of the programs modelled that match ^[A-Za-z_][A-Za-z0-9_]*$
Identifiers ==
    {"x", "y", "z", "i", "a", "b", "c", "d", "n", "f", "g", "r", "p", "abs", "arr",
     "ifx", "defx", "whilex", "gotox", "elsex", "printer", "a_b",
     "print", "if", "eval", "import"}

\* _validate_variable_name
ValidateVariableName(name) ==
    /\ name \in Identifiers
    /\ name \notin SAFE_FUNCTIONS \cup Keywords

Top(stack) == stack[Len(stack)]

Pop(stack) == SubSeq(stack, 1, Len(stack) - 1)

\* the line that code.replace(alias, replacement, 1) leaves: <target> <expr>
Reclassify(line, target) ==
    CASE target = "print" -> PrintL(line.indent, line.expr)
      [] target = "goto" ->
            GotoL(line.indent, IF line.expr.op = "lit" THEN line.expr.n ELSE -1)
      [] OTHER -> [line EXCEPT !.head = target]

\* the alias loop at the head of _process_command
ApplyAliases(s, line) ==
    IF line.cmd = "word" /\ line.head \in DOMAIN s.aliases
    THEN Reclassify(line, s.aliases[line.head])
    ELSE line

\* _handle_alias
HandleAlias(s, line) ==
    IF ~ValidateVariableName(line.name)
    THEN Raise(s, "GuythonSyntaxError", "Invalid alias name")
    ELSE [s EXCEPT !.aliases = Bind(@, line.name, line.target)]

\* _handle_if
HandleIf(s, line) ==
    IF line.expr.op = "none"
    THEN Raise(s, "GuythonSyntaxError", "If statement missing condition")
    ELSE LET r == Evaluate(line.expr, s.variables)
         IN  IF ~r.ok THEN Raise(s, "GuythonRuntimeError", "Error in if condition")
             ELSE [s EXCEPT !.if_stack = Append(@, <<Truthy(r.v), line.indent>>),
                            !.else_stack = Append(@, <<~Truthy(r.v), line.indent>>)]

\* _handle_else
HandleElse(s, line) ==
    IF s.else_stack = <<>>
    THEN Raise(s, "GuythonSyntaxError", "Unexpected 'else' without matching 'if'")
    ELSE LET should_run == Top(s.else_stack)[1]
             if_indent == Top(s.else_stack)[2]
         IN  IF line.indent <= if_indent
             THEN Raise(s, "GuythonSyntaxError",
                        "Else block must be indented under its matching if")
             ELSE [s EXCEPT !.if_stack = Append(@, <<should_run, line.indent>>)]

\* an interpreter object on which every lookup of _handle_while succeeds
HasHandleWhileAlways(s) == TRUE

\* self._handle_while in _process_command: whether the attribute lookup
\* succeeds
HasHandleWhile(s) == s.handle_while

\* _handle_while is called by _process_command and defined nowhere in the
\* class.  Where the object is given the attribute, it is the handler the
\* specification describes: a loop-frame (condition, depth, empty body) is
\* pushed on the while header.
HandleWhile(s, line) ==
    IF line.expr.op = "none"
    THEN Raise(s, "GuythonSyntaxError", "While statement missing condition")
    ELSE [s EXCEPT !.loop_stack = Append(@, <<line.expr, line.indent, <<>>>>)]

\* HandleFunctionDefinition keeping the entry of a name already defined
HandleFunctionDefinitionOnce(s, line) ==
    IF ~line.wellformed
    THEN Raise(s, "GuythonSyntaxError", "Function must be defined as 'def<name>_ [args]'")
    ELSE IF ~ValidateVariableName(line.name)
    THEN Raise(s, "GuythonSyntaxError", "Invalid function name")
    ELSE IF \E j \in 1..Len(line.args) :
                line.args[j] # "" /\ ~ValidateVariableName(line.args[j])
    THEN Raise(s, "GuythonSyntaxError", "Invalid argument name")
    ELSE [s EXCEPT !.functions =
                       IF line.name \in DOMAIN @ THEN @
                       ELSE Bind(@, line.name, [args |-> line.args, body |-> <<>>]),
                   !.defining_function = <<line.name, line.indent>>,
                   !.function_stack = <<>>]

\* _handle_function_definition
HandleFunctionDefinition(s, line) ==
    IF ~line.wellformed
    THEN Raise(s, "GuythonSyntaxError", "Function must be defined as 'def<name>_ [args]'")
    ELSE IF ~ValidateVariableName(line.name)
    THEN Raise(s, "GuythonSyntaxError", "Invalid function name")
    ELSE IF \E j \in 1..Len(line.args) :
                \* if arg and not self._validate_variable_name(arg)
                line.args[j] # "" /\ ~ValidateVariableName(line.args[j])
    THEN Raise(s, "GuythonSyntaxError", "Invalid argument name")
    ELSE [s EXCEPT !.functions = Bind(@, line.name, [args |-> line.args, body |-> <<>>]),
                   !.defining_function = <<line.name, line.indent>>,
                   !.function_stack = <<>>]

\* HandleGoto clearing the if-frames as it raises the signal
HandleGotoReset(s, line) ==
    IF line.target < 0
    THEN Raise(s, "GuythonSyntaxError", "Goto syntax error")
    ELSE [s EXCEPT !.exc = "goto", !.target = line.target, !.if_stack = <<>>]

\* _handle_goto: text after "goto" that is not all digits is target -1 here
HandleGoto(s, line) ==
    IF line.target < 0
    THEN Raise(s, "GuythonSyntaxError", "Goto syntax error")
    ELSE [s EXCEPT !.exc = "goto", !.target = line.target]

\* _handle_assignment
HandleAssignment(s, line) ==
    IF ~ValidateVariableName(line.name)
    THEN Raise(s, "GuythonSyntaxError", "Invalid variable name")
    ELSE LET r == Evaluate(line.expr, s.variables)
         IN  IF ~r.ok THEN Raise(s, "GuythonRuntimeError", "Error in assignment")
             ELSE [s EXCEPT !.variables = Bind(@, line.name, r.v)]

\* what a token of a print line adds to its piece: the text of a quoted
\* token, str() of the value of any other, '[Error]' when evaluate raises
Piece(s, e) ==
    IF e.op = "str" THEN StrV(e.code)
    ELSE Only({ IF r.ok THEN r.v ELSE ErrorPiece : r \in {Evaluate(e, s.variables)} })

\* the pieces of print <e1>, <e2>, ... joined by blanks
Joined(parts) == [t |-> "joined", parts |-> parts]

\* HandlePrint with the error of a token raised instead of caught
HandlePrintRaising(s, line) ==
    IF line.expr.op = "chunks"
    THEN IF \E j \in 1..Len(line.expr.items) : Piece(s, line.expr.items[j]) = ErrorPiece
         THEN Raise(s, "GuythonRuntimeError", "Error evaluating expression")
         ELSE Emit(s, Joined([j \in 1..Len(line.expr.items) |->
                                 Piece(s, line.expr.items[j])]))
    ELSE IF Piece(s, line.expr) = ErrorPiece
         THEN Raise(s, "GuythonRuntimeError", "Error evaluating expression")
         ELSE Emit(s, Piece(s, line.expr))

\* _handle_print, for a line of one token or of one token per comma-separated
\* chunk
HandlePrint(s, line) ==
    IF line.expr.op = "chunks"
    THEN Emit(s, Joined([j \in 1..Len(line.expr.items) |-> Piece(s, line.expr.items[j])]))
    ELSE Emit(s, Piece(s, line.expr))

\* the variables once evaluate has returned: <name>.append(<expr>) has
\* changed the list bound to name in place.  No program modelled binds one
\* list to two names or calls append anywhere but in a line of its own.
AfterEvaluate(e, env) ==
    IF /\ e.op = "call" /\ Len(e.args) = 1
       /\ e.func.op = "attr" /\ e.func.attr = "append"
       /\ e.func.obj.op = "var" /\ e.func.obj.id \in DOMAIN env
       /\ env[e.func.obj.id].t = "list"
       /\ Evaluate(e.args[1], env).ok
    THEN Bind(env, e.func.obj.id,
              ListV(Append(env[e.func.obj.id].items, Evaluate(e.args[1], env).v)))
    ELSE env

\* the last branch of _process_command: evaluate the line and print the value
HandleExpression(s, line) ==
    LET r == Evaluate(IF line.cmd = "word" THEN BadExpr ELSE line.expr, s.variables)
    IN  IF ~r.ok THEN Raise(s, "GuythonRuntimeError", "Error evaluating expression")
        ELSE IF r.v = NoneV
        THEN [s EXCEPT !.variables = AfterEvaluate(line.expr, @)]
        ELSE [Emit(s, r.v) EXCEPT !.last_output = r.v]

\* OutOfBounds with the last element out of bounds as well
OutOfBoundsEarly(index, n) == index < 0 \/ index >= n - 1

\* if index < 0 or index >= len(current_value)
OutOfBounds(index, n) == index < 0 \/ index >= n

\* f"Array index {index} out of bounds (0-{len(current_value)-1})"
BoundsMessage(index, n) ==
    "Array index " \o ToString(index) \o " out of bounds (0-" \o ToString(n - 1) \o ")"

\* GuythonRuntimeError(msg) raised by the array handler
Failure(msg) == [ok |-> FALSE, v |-> NoneV, exc |-> "GuythonRuntimeError", msg |-> msg]

RECURSIVE IndexInto(_, _, _)
\* the while loop of _handle_array_access over the bracket accesses
IndexInto(current_value, indices, env) ==
    IF indices = <<>> THEN Ok(current_value)
    ELSE LET index == Evaluate(Head(indices), env)
         IN  IF ~index.ok THEN Failure("Error evaluating expression")
             ELSE IF ~IsNum(index.v) THEN Failure("Array index must be integer")
             ELSE IF current_value.t # "list" THEN Failure("Cannot index non-array value")
             ELSE IF OutOfBounds(Num(index.v), Len(current_value.items))
             THEN Failure(BoundsMessage(Num(index.v), Len(current_value.items)))
             ELSE IndexInto(current_value.items[Num(index.v) + 1], Tail(indices), env)

\* the array access branch of _process_command with _handle_array_access
HandleArrayAccess(s, line) ==
    IF line.name \notin DOMAIN s.variables
    THEN Raise(s, "GuythonRuntimeError", "Variable not found")
    ELSE LET r == IndexInto(s.variables[line.name], line.indices, s.variables)
         IN  IF ~r.ok THEN Raise(s, "GuythonRuntimeError", r.msg)
             ELSE IF r.v = NoneV THEN s
             ELSE [Emit(s, r.v) EXCEPT !.last_output = r.v]

\* _parse_array_literal
ParseArrayLiteral(arg, env) ==
    LET values == [j \in 1..Len(arg.items) |-> Evaluate(arg.items[j], env)]
    IN  IF \E j \in 1..Len(values) : ~values[j].ok THEN Fail
        ELSE Ok(ListV([j \in 1..Len(values) |-> values[j].v]))

\* _evaluate_argument
EvaluateArgument(arg, env) ==
    CASE arg.op = "str" -> Ok(StrV(arg.code))
      [] arg.op = "lit" -> Ok(IntV(arg.n))
      [] arg.op = "var" /\ arg.id \in DOMAIN env -> Ok(env[arg.id])
      [] arg.op = "list" /\ ParseArrayLiteral(arg, env).ok -> ParseArrayLiteral(arg, env)
      [] OTHER -> Evaluate(arg, env)

\* _evaluate_argument prints "DEBUG: Array literal result: ..."
PrintsArrayLiteral(arg, env) == arg.op = "list" /\ ParseArrayLiteral(arg, env).ok

(***************************************************************************)
(* run_line and what it calls.  These call each other: a function body,    *)
(* a loop body and an eval string are all run through run_line.            *)
(***************************************************************************)
RECURSIVE RunLine(_, _, _)
RECURSIVE RunBlock(_, _, _)
RECURSIVE Iterate(_, _, _, _)
RECURSIVE CloseIfs(_, _)
RECURSIVE CloseLoops(_, _)
RECURSIVE ExecuteRemaining(_)
RECURSIVE BindArguments(_, _, _, _)

\* for indent, line in body: self.run_line(...), until an exception escapes.
\* line_number is self.current_line_number for a function body and the
\* default 0 for a loop body.
RunBlock(s, block, in_loop) ==
    IF block = <<>> \/ s.exc # "none" THEN s
    ELSE Only({ RunBlock(t, Tail(block), in_loop) :
                t \in {RunLine(s, Head(block),
                               IF in_loop THEN 0 ELSE s.current_line_number)} })

\* what one pass of _execute_loop's while makes of the body's outcome s2
AfterBody(w, s2) ==
    IF s2.exc = "none" THEN [w EXCEPT !.s = s2, !.iteration_count = @ + 1]
    ELSE IF s2.exc = "goto"
    THEN \* except Exception: GuythonGotoException is no GuythonError
         [w EXCEPT !.running = FALSE,
                   !.s = Raise(s2, "GuythonRuntimeError", "Error in while loop")]
    ELSE [w EXCEPT !.running = FALSE, !.s = s2]

\* LoopPass with > for >= in the ceiling test
LoopPassLate(w, condition, block) ==
    IF ~w.running THEN w
    ELSE LET r == Evaluate(condition, w.s.variables)
         IN  IF ~r.ok
             THEN [w EXCEPT !.running = FALSE,
                            !.s = Raise(@, "GuythonRuntimeError", "Error evaluating expression")]
             ELSE IF ~Truthy(r.v) THEN [w EXCEPT !.running = FALSE]
             ELSE IF w.iteration_count > MAX_LOOP_ITERATIONS
             THEN [w EXCEPT !.running = FALSE,
                            !.s = Raise(@, "GuythonRuntimeError",
                                        "Loop exceeded maximum iterations")]
             ELSE Only({ AfterBody(w, s2) : s2 \in {RunBlock(w.s, block, TRUE)} })

\* one pass of _execute_loop's while: w is [s, iteration_count, running]
LoopPass(w, condition, block) ==
    IF ~w.running THEN w
    ELSE LET r == Evaluate(condition, w.s.variables)
         IN  IF ~r.ok
             THEN [w EXCEPT !.running = FALSE,
                            !.s = Raise(@, "GuythonRuntimeError", "Error evaluating expression")]
             ELSE IF ~Truthy(r.v) THEN [w EXCEPT !.running = FALSE]
             ELSE IF w.iteration_count >= MAX_LOOP_ITERATIONS
             THEN [w EXCEPT !.running = FALSE,
                            !.s = Raise(@, "GuythonRuntimeError",
                                        "Loop exceeded maximum iterations")]
             ELSE Only({ AfterBody(w, s2) : s2 \in {RunBlock(w.s, block, TRUE)} })

\* n passes of the while, halved so that the evaluation stays shallow
Iterate(w, n, condition, block) ==
    IF ~w.running \/ n = 0 THEN w
    ELSE IF n = 1 THEN LoopPass(w, condition, block)
    ELSE Only({ Iterate(mid, n - (n \div 2), condition, block) :
                mid \in {Iterate(w, n \div 2, condition, block)} })

\* _execute_loop: pass MAX_LOOP_ITERATIONS + 1 raises if the loop still runs
ExecuteLoop(s, condition, block) ==
    Iterate([s |-> s, iteration_count |-> 0, running |-> TRUE],
            MAX_LOOP_ITERATIONS + 1, condition, block).s

\* CloseIfs that leaves a frame at the depth of the line open
RECURSIVE CloseIfsDeeper(_, _)
CloseIfsDeeper(stack, indent) ==
    IF stack # <<>> /\ Top(stack)[2] > indent THEN CloseIfsDeeper(Pop(stack), indent)
    ELSE stack

\* _close_blocks, first while: pop the if-frames at depth >= indent
CloseIfs(stack, indent) ==
    IF stack # <<>> /\ Top(stack)[2] >= indent THEN CloseIfs(Pop(stack), indent)
    ELSE stack

\* _close_blocks, second while: pop and execute the loop-frames at depth >= indent
CloseLoops(s, indent) ==
    IF s.exc = "none" /\ s.loop_stack # <<>> /\ Top(s.loop_stack)[2] >= indent
    THEN Only({ CloseLoops(t, indent) :
                t \in {ExecuteLoop([s EXCEPT !.loop_stack = Pop(@)],
                                   Top(s.loop_stack)[1], Top(s.loop_stack)[3])} })
    ELSE s

\* _close_blocks
CloseBlocks(s, indent) ==
    Only({ CloseLoops(t, indent) : t \in {[s EXCEPT !.if_stack = CloseIfs(@, indent)]} })

\* execute_remaining_loops with an if for its while: the top frame only
ExecuteRemainingOnce(s) ==
    IF s.exc = "none" /\ s.loop_stack # <<>>
    THEN ExecuteLoop([s EXCEPT !.loop_stack = Pop(@)],
                     Top(s.loop_stack)[1], Top(s.loop_stack)[3])
    ELSE s

\* execute_remaining_loops
ExecuteRemaining(s) ==
    IF s.exc = "none" /\ s.loop_stack # <<>>
    THEN Only({ ExecuteRemaining(t) :
                t \in {ExecuteLoop([s EXCEPT !.loop_stack = Pop(@)],
                                   Top(s.loop_stack)[1], Top(s.loop_stack)[3])} })
    ELSE s

\* _handle_eval_command
HandleEval(s, line) ==
    LET r == Evaluate(line.expr, s.variables)
    IN  IF ~r.ok THEN Raise(s, "GuythonRuntimeError", "Error evaluating expression")
        ELSE IF r.v.t # "str"
        THEN Raise(s, "GuythonRuntimeError", "Eval requires string argument")
        ELSE Only({ IF s2.exc = "goto"
                    THEN \* except Exception: GuythonGotoException is no GuythonError
                         Raise(s2, "GuythonRuntimeError", "Error in eval")
                    ELSE s2 :
                    s2 \in {RunLine(s, r.v.code, s.current_line_number)} })

\* the for loop of _handle_function_call that evaluates and binds arguments
BindArguments(s, declared_args, passed_args, j) ==
    IF j > Len(declared_args) THEN s
    ELSE LET r == EvaluateArgument(passed_args[j], s.variables)
         IN  IF ~r.ok
             THEN Raise([s EXCEPT !.output = Append(@, [k |-> "debug"])],
                        "GuythonRuntimeError", "Error evaluating argument")
             ELSE Only({ BindArguments(t, declared_args, passed_args, j + 1) :
                         t \in {[s EXCEPT !.variables = Bind(@, declared_args[j], r.v),
                                          !.output =
                                              IF PrintsArrayLiteral(passed_args[j], s.variables)
                                              THEN Append(@, [k |-> "debug", v |-> r.v])
                                              ELSE @]} })

\* the finally clause restoring nothing
RestoreNothing(env, saved_vars, declared_args) == env

\* the finally clause of _handle_function_call
RestoreParameters(env, saved_vars, declared_args) ==
    LET params == {declared_args[j] : j \in 1..Len(declared_args)}
    IN  [n \in (DOMAIN env \ params) \cup (params \cap DOMAIN saved_vars) |->
            IF n \in params THEN saved_vars[n] ELSE env[n]]

\* HandleFunctionCall rejecting only a call with too few arguments
HandleFunctionCallLax(s, line) ==
    IF line.name \notin DOMAIN s.functions
    THEN Raise(s, "GuythonRuntimeError", "Function not found")
    ELSE LET func == s.functions[line.name]
         IN  IF Len(line.args) < Len(func.args)
             THEN Raise(s, "GuythonRuntimeError", "Function expects args")
             ELSE Only({ IF done.exc = "exit" THEN done
                         ELSE [done EXCEPT !.variables =
                                   RestoreParameters(@, s.variables, func.args)] :
                         done \in {RunBlock(BindArguments(s, func.args, line.args, 1),
                                            func.body, FALSE)} })

\* _handle_function_call
HandleFunctionCall(s, line) ==
    IF line.name \notin DOMAIN s.functions
    THEN Raise(s, "GuythonRuntimeError", "Function not found")
    ELSE LET func == s.functions[line.name]
         IN  IF Len(line.args) # Len(func.args)
             THEN Raise(s, "GuythonRuntimeError", "Function expects args")
             ELSE Only({ IF done.exc = "exit" THEN done
                         ELSE [done EXCEPT !.variables =
                                   RestoreParameters(@, s.variables, func.args)] :
                         done \in {RunBlock(BindArguments(s, func.args, line.args, 1),
                                            func.body, FALSE)} })

\* _process_command
ProcessCommand(s, raw) ==
    LET line == ApplyAliases(s, raw)
        indent == line.indent
    IN  CASE line.cmd = "eval" -> HandleEval(s, line)
          [] line.cmd = "alias" -> HandleAlias(s, line)
          [] line.cmd = "else" -> HandleElse(s, line)
          [] line.cmd = "exit_" -> [s EXCEPT !.exc = "exit"]
          [] line.cmd = "def" -> HandleFunctionDefinition(s, line)
          [] line.cmd = "while" ->
                IF HasHandleWhile(s) THEN HandleWhile(s, line)
                ELSE Raise(s, "AttributeError", "no attribute '_handle_while'")
          [] line.cmd = "if" -> HandleIf(s, line)
          [] s.loop_stack # <<>> /\ indent > Top(s.loop_stack)[2] ->
                [s EXCEPT !.loop_stack[Len(s.loop_stack)][3] = Append(@, line)]
          [] s.if_stack # <<>> /\ ~Top(s.if_stack)[1] /\ indent > Top(s.if_stack)[2] -> s
          [] line.cmd = "goto" -> HandleGoto(s, line)
          [] line.cmd = "call" -> HandleFunctionCall(s, line)
          [] line.cmd = "assign" -> HandleAssignment(s, line)
          [] line.cmd = "print" -> HandlePrint(s, line)
          [] line.cmd = "index" -> HandleArrayAccess(s, line)
          [] OTHER -> HandleExpression(s, line)

\* CaptureOrSeal capturing a line at the depth of the def header as well
CaptureOrSealLate(s, line) ==
    IF s.defining_function = <<>> THEN s
    ELSE IF line.indent >= s.defining_function[2]
    THEN [s EXCEPT !.function_stack = Append(@, line), !.captured = TRUE]
    ELSE [s EXCEPT !.functions[s.defining_function[1]].body = s.function_stack,
                   !.defining_function = <<>>,
                   !.function_stack = <<>>]

\* the head of run_line's try block: while a function is being defined, a
\* deeper line is captured and any other line seals the body
CaptureOrSeal(s, line) ==
    IF s.defining_function = <<>> THEN s
    ELSE IF line.indent > s.defining_function[2]
    THEN [s EXCEPT !.function_stack = Append(@, line), !.captured = TRUE]
    ELSE [s EXCEPT !.functions[s.defining_function[1]].body = s.function_stack,
                   !.defining_function = <<>>,
                   !.function_stack = <<>>]

\* the try block of run_line
RunLineTry(s, line) ==
    Only({ IF t.captured THEN [t EXCEPT !.captured = FALSE]
           ELSE Only({ IF closed.exc # "none" THEN closed
                       ELSE ProcessCommand(closed, line) :
                       closed \in {CloseBlocks(t, line.indent)} }) :
           t \in {CaptureOrSeal(s, line)} })

\* Report with the print calls left out
ReportNothing(s, lineno) == [s EXCEPT !.exc = "none"]

\* the print calls of run_line's except clauses
Report(s, lineno) ==
    [s EXCEPT !.exc = "none",
              !.output = Append(@, [k |-> "report", line |-> lineno,
                                    exc |-> s.exc, msg |-> s.msg])]

\* RunLine with an empty line sealing a definition and closing the blocks
\* like any other line at depth 0
RunLineBlankCloses(s, line, lineno) ==
    IF line.cmd = "blank"
    THEN Only({ CloseBlocks(t, line.indent) :
                t \in {CaptureOrSeal([s EXCEPT !.current_line_number = lineno], line)} })
    ELSE Only({ IF tried.exc \in {"none", "goto", "exit"} THEN tried
                ELSE Report(tried, lineno) :
                tried \in {RunLineTry([s EXCEPT !.current_line_number = lineno], line)} })

\* run_line(line, importing=False, lineno)
RunLine(s, line, lineno) ==
    IF line.cmd = "blank" THEN [s EXCEPT !.current_line_number = lineno]
    ELSE Only({ IF tried.exc \in {"none", "goto", "exit"} THEN tried
                ELSE Report(tried, lineno) :
                tried \in {RunLineTry([s EXCEPT !.current_line_number = lineno], line)} })

(***************************************************************************)
(* The programs run.                                                       *)
(***************************************************************************)
\* how many lines the generated body of an if block has at most
MaxNested == 2

\* the largest goto target of the generated goto programs
MaxTarget == 6

\* the largest N of the generated loops "while x<N"
MaxLoopBound == 8

\* the largest index read from an array
MaxIndex == 5

False == Eq(Lit(1), Lit(2))

True == Eq(Lit(1), Lit(1))

\* the lines tried at depth d inside an if block
NestedLines(d) ==
    { Assign(d, "x", Lit(1)),
      PrintL(d, Var("x")),
      IfL(d, True),
      ElseL(d),
      WhileL(d, Lt(Var("x"), Lit(3))),
      DefL(d, "g", <<>>),
      AliasL(d, "p", "print"),
      WordL(d, "p", Var("x")),
      EvalL(d, Str(Assign(0, "x", Lit(7)))),
      ExitL(d),
      GotoL(d, 99),
      CallL(d, "f", <<>>) }

RECURSIVE SeqsUpTo(_, _)
\* the sequences over S of length 1..n
SeqsUpTo(S, n) ==
    IF n = 0 THEN {}
    ELSE {<<x>> : x \in S} \cup {Append(q, x) : q \in SeqsUpTo(S, n - 1), x \in S}

\* x=0 / if <cond> / <body> / x=x+10
IfPrograms ==
    { <<Assign(0, "x", Lit(0)), IfL(0, cond)>> \o body
        \o <<Assign(0, "x", Add(Var("x"), Lit(10)))>> :
      cond \in {False, True},
      body \in SeqsUpTo(NestedLines(1) \cup {Assign(2, "x", Lit(2))}, MaxNested) }

\* x=0 / goto N / x=x+1 / x=x+10
GotoProgram(n) ==
    <<Assign(0, "x", Lit(0)), GotoL(0, n), Assign(0, "x", Add(Var("x"), Lit(1))),
      Assign(0, "x", Add(Var("x"), Lit(10)))>>

GotoPrograms == {GotoProgram(n) : n \in 0..MaxTarget}

\* x=0 / goto 4 / x=x+1 / goto 9
GotoTwiceProgram ==
    <<Assign(0, "x", Lit(0)), GotoL(0, 4), Assign(0, "x", Add(Var("x"), Lit(1))),
      GotoL(0, 9)>>

\* i=0 / while i<3 / .print i / .i=i+1
WhileProgram ==
    <<Assign(0, "i", Lit(0)), WhileL(0, Lt(Var("i"), Lit(3))),
      PrintL(1, Var("i")), Assign(1, "i", Add(Var("i"), Lit(1)))>>

\* goto 1
GotoSelfProgram == <<GotoL(0, 1)>>

\* x=0 / def f_ / .x=5 / .goto 6 / f_ / x=x+1
GotoInFunctionProgram ==
    <<Assign(0, "x", Lit(0)), DefL(0, "f", <<>>), Assign(1, "x", Lit(5)), GotoL(1, 6),
      CallL(0, "f", <<>>), Assign(0, "x", Add(Var("x"), Lit(1)))>>

\* x=0 / eval "goto 4" / x=1 / x=x+10
GotoInEvalProgram ==
    <<Assign(0, "x", Lit(0)), EvalL(0, Str(GotoL(0, 4))), Assign(0, "x", Lit(1)),
      Assign(0, "x", Add(Var("x"), Lit(10)))>>

\* x=y / abs=1 / goto x / if / eval 3 / x=2
ErrorProgram ==
    <<Assign(0, "x", Var("y")), Assign(0, "abs", Lit(1)), GotoL(0, -1),
      IfL(0, [op |-> "none"]), EvalL(0, Lit(3)), Assign(0, "x", Lit(2))>>

\* a=7 / def f_ a,b / .print a+b / .print a / f_ 2,3 / f_ y / g_ / f_ y,3 /
\* f_ 3,y / f_ 1,2,3 / f_ / x=1
CallProgram ==
    <<Assign(0, "a", Lit(7)), DefL(0, "f", <<"a", "b">>),
      PrintL(1, Add(Var("a"), Var("b"))), PrintL(1, Var("a")),
      CallL(0, "f", <<Lit(2), Lit(3)>>), CallL(0, "f", <<Var("y")>>),
      CallL(0, "g", <<>>), CallL(0, "f", <<Var("y"), Lit(3)>>),
      CallL(0, "f", <<Lit(3), Var("y")>>),
      CallL(0, "f", <<Lit(1), Lit(2), Lit(3)>>), CallL(0, "f", <<>>),
      Assign(0, "x", Lit(1))>>

\* def f_ a,b / .print a+b / f_ 2,3
SumProgram ==
    <<DefL(0, "f", <<"a", "b">>), PrintL(1, Add(Var("a"), Var("b"))),
      CallL(0, "f", <<Lit(2), Lit(3)>>)>>

\* a=7 / def f_ a,b / .print b / f_ 2,a / print a
ShadowProgram ==
    <<Assign(0, "a", Lit(7)), DefL(0, "f", <<"a", "b">>), PrintL(1, Var("b")),
      CallL(0, "f", <<Lit(2), Var("a")>>), PrintL(0, Var("a"))>>

\* a=7 / def g_ a / .y=a / .a=9 / def f_ a,b / .g_ b / .b=a / .z=a / f_ 1,2 / x=1
NestedCallProgram ==
    <<Assign(0, "a", Lit(7)), DefL(0, "g", <<"a">>), Assign(1, "y", Var("a")),
      Assign(1, "a", Lit(9)), DefL(0, "f", <<"a", "b">>), CallL(1, "g", <<Var("b")>>),
      Assign(1, "b", Var("a")), Assign(1, "z", Var("a")),
      CallL(0, "f", <<Lit(1), Lit(2)>>), Assign(0, "x", Lit(1))>>

\* n=5 / def r_ n / .d=n / .if n<2 / ..r_ n+1 / .c=n / r_ 0 / x=1
RecursiveProgram ==
    <<Assign(0, "n", Lit(5)), DefL(0, "r", <<"n">>), Assign(1, "d", Var("n")),
      IfL(1, Lt(Var("n"), Lit(2))), CallL(2, "r", <<Add(Var("n"), Lit(1))>>),
      Assign(1, "c", Var("n")), CallL(0, "r", <<Lit(0)>>), Assign(0, "x", Lit(1))>>

\* a=7 / def f_ a / .y=a / .goto 6 / f_ 3 / x=a
GotoFromCallProgram ==
    <<Assign(0, "a", Lit(7)), DefL(0, "f", <<"a">>), Assign(1, "y", Var("a")),
      GotoL(1, 6), CallL(0, "f", <<Lit(3)>>), Assign(0, "x", Var("a"))>>

\* def f_ / .exit_ / .goto 9 / .eval "x=7" / .else / ..def g_ / (blank) /
\* .alias p print / .p x / ..while x<3 / .f_ / .if 1==1 / .x=y / x=1
CaptureProgram ==
    <<DefL(0, "f", <<>>), ExitL(1), GotoL(1, 9), EvalL(1, Str(Assign(0, "x", Lit(7)))),
      ElseL(1), DefL(2, "g", <<>>), Blank, AliasL(1, "p", "print"),
      WordL(1, "p", Var("x")), WhileL(2, Lt(Var("x"), Lit(3))), CallL(1, "f", <<>>),
      IfL(1, True), Assign(1, "x", Var("y")), Assign(0, "x", Lit(1))>>

\* if 1==2 / .x=1 / (empty) / .y=2 / def f_ / .z=1 / (empty) / .n=2 / f_ / d=1
BlankProgram ==
    <<IfL(0, False), Assign(1, "x", Lit(1)), Blank, Assign(1, "y", Lit(2)),
      DefL(0, "f", <<>>), Assign(1, "z", Lit(1)), Blank, Assign(1, "n", Lit(2)),
      CallL(0, "f", <<>>), Assign(0, "d", Lit(1))>>

\* def f_ / .if 1==2 / ..x=1 / if 1==1 / .if 1==1 / ..f_ / ..y=1 / z=1
CalleeIfProgram ==
    <<DefL(0, "f", <<>>), IfL(1, False), Assign(2, "x", Lit(1)),
      IfL(0, True), IfL(1, True), CallL(2, "f", <<>>), Assign(2, "y", Lit(1)),
      Assign(0, "z", Lit(1))>>

\* def f_ / .z=1 / .n=2
OpenDefinitionProgram ==
    <<DefL(0, "f", <<>>), Assign(1, "z", Lit(1)), Assign(1, "n", Lit(2))>>

\* the identifiers assigned to by the assignment programs
AssignedNames == {"x", "ifx", "defx", "whilex", "gotox", "elsex", "printer", "a_b"}

\* <name>=1 / y=<name>
AssignProgram(name) == <<AssignText(0, name, Lit(1)), Assign(0, "y", Var(name))>>

AssignPrograms == {AssignProgram(name) : name \in AssignedNames}

\* the text abc as a source line
Abc == ExprL(0, Var("abc"))

\* x=5 / print y / print x, y, "abc" / print a_b / z=1
PrintErrorProgram ==
    <<Assign(0, "x", Lit(5)), PrintL(0, Var("y")),
      PrintAllL(0, <<Var("x"), Var("y"), Str(Abc)>>), PrintL(0, Var("a_b")),
      Assign(0, "z", Lit(1))>>

\* x=5 / foo(1) / "abc".upper() / z="abc".upper() / y=x.real / q / q.z /
\* b=q.z+1 / abs(0-3) / x.z / x(1)
EvaluatorProgram ==
    <<Assign(0, "x", Lit(5)),
      ExprL(0, Call(Var("foo"), <<Lit(1)>>)),
      ExprL(0, Call(Attr(Str(Abc), "upper"), <<>>)),
      Assign(0, "z", Call(Attr(Str(Abc), "upper"), <<>>)),
      Assign(0, "y", Attr(Var("x"), "real")),
      ExprL(0, Var("q")),
      ExprL(0, Attr(Var("q"), "z")),
      Assign(0, "b", Add(Attr(Var("q"), "z"), Lit(1))),
      ExprL(0, Call(Var("abs"), <<Sub(Lit(0), Lit(3))>>)),
      ExprL(0, Attr(Var("x"), "z")),
      ExprL(0, Call(Var("x"), <<Lit(1)>>))>>

\* arr[<index>]
Read(index) == ArrayReadL(1, "arr", <<index>>)

\* arr.append(<n>)
AppendL(n) == ExprL(1, Call(Attr(Var("arr"), "append"), <<Lit(n)>>))

\* def f_ arr / .arr[0] / .arr[5] / .arr[0-1] / .arr.append(5) /
\* .arr.append(6) / .arr[2] / .arr[5] / .arr[1]=9 / .arr[1] / .arr[x] /
\* f_ [4] / f_ [] / arr[0]
ArrayProgram ==
    <<DefL(0, "f", <<"arr">>), Read(Lit(0)), Read(Lit(5)), Read(Sub(Lit(0), Lit(1))),
      AppendL(5), AppendL(6), Read(Lit(2)), Read(Lit(5)), ArrayWriteL(1, Lit(9)),
      Read(Lit(1)), Read(Var("x")), CallL(0, "f", <<ListLit(<<Lit(4)>>)>>),
      CallL(0, "f", <<ListLit(<<>>)>>), ArrayReadL(0, "arr", <<Lit(0)>>)>>

\* x=0 / if 1==1 / .goto 5 / .x=1 / .x=x+10 / y=1
GotoInIfProgram ==
    <<Assign(0, "x", Lit(0)), IfL(0, True), GotoL(1, 5), Assign(1, "x", Lit(1)),
      Assign(1, "x", Add(Var("x"), Lit(10))), Assign(0, "y", Lit(1))>>

\* the largest base and exponent of the power programs
MaxPower == 3

\* x=<a>**<b> / y=<a>^<b>
PowerProgram(a, b) ==
    <<Assign(0, "x", Pow(Lit(a), Lit(b))), Assign(0, "y", Xor(Lit(a), Lit(b)))>>

PowerPrograms == {PowerProgram(a, b) : a \in 0..MaxPower, b \in 0..MaxPower}

\* if <cond> / .x=1 / else / .x=2 / y=1
ElseProgram(cond) ==
    <<IfL(0, cond), Assign(1, "x", Lit(1)), ElseL(0), Assign(1, "x", Lit(2)),
      Assign(0, "y", Lit(1))>>

ElsePrograms == {ElseProgram(cond) : cond \in {False, True}}

\* names that _validate_variable_name rejects
ReservedNames == {"print", "if", "eval", "import", "abs"}

\* <name>=1
ReservedAssignProgram(name) == <<AssignText(0, name, Lit(1))>>

ReservedAssignPrograms == {ReservedAssignProgram(name) : name \in ReservedNames}

\* def f_ a, / .y=a / f_ 1,2 / x=1: the text after the comma is an empty
\* parameter name
EmptyParameterProgram ==
    <<DefL(0, "f", <<"a", "">>), Assign(1, "y", Var("a")),
      CallL(0, "f", <<Lit(1), Lit(2)>>), Assign(0, "x", Lit(1))>>

\* def f_ a / .x=a / f_ 1 / def f_ b,c / .y=b+c / f_ 2,4 / f_ 4 / z=1
RedefineProgram ==
    <<DefL(0, "f", <<"a">>), Assign(1, "x", Var("a")), CallL(0, "f", <<Lit(1)>>),
      DefL(0, "f", <<"b", "c">>), Assign(1, "y", Add(Var("b"), Var("c"))),
      CallL(0, "f", <<Lit(2), Lit(4)>>), CallL(0, "f", <<Lit(4)>>),
      Assign(0, "z", Lit(1))>>

\* if <cond> / .x=1 / y=1 / .else / ..x=2 / z=3: y=1 closes the if block
StaleElseProgram(cond) ==
    <<IfL(0, cond), Assign(1, "x", Lit(1)), Assign(0, "y", Lit(1)), ElseL(1),
      Assign(2, "x", Lit(2)), Assign(0, "z", Lit(3))>>

StaleElsePrograms == {StaleElseProgram(cond) : cond \in {False, True}}

CallPrograms ==
    {ShadowProgram, NestedCallProgram, RecursiveProgram, GotoFromCallProgram,
     CaptureProgram, EvaluatorProgram, ArrayProgram, GotoInIfProgram,
     EmptyParameterProgram, RedefineProgram}

Programs ==
    IfPrograms \cup GotoPrograms \cup CallPrograms \cup AssignPrograms
        \cup PowerPrograms \cup ElsePrograms \cup ReservedAssignPrograms
        \cup StaleElsePrograms
        \cup {WhileProgram, GotoSelfProgram, GotoTwiceProgram, GotoInFunctionProgram,
              GotoInEvalProgram, ErrorProgram, CallProgram, SumProgram, BlankProgram,
              CalleeIfProgram, PrintErrorProgram, OpenDefinitionProgram}

\* x=0 / while x<N / .x=x+1, then the lines of tail
CountLoop(n, tail) ==
    <<Assign(0, "x", Lit(0)), WhileL(0, Lt(Var("x"), Lit(n))),
      Assign(1, "x", Add(Var("x"), Lit(1)))>> \o tail

\* x=0 / while 1==1 / .x=x+1, then the lines of tail
ForeverLoop(tail) ==
    <<Assign(0, "x", Lit(0)), WhileL(0, True),
      Assign(1, "x", Add(Var("x"), Lit(1)))>> \o tail

\* the lines y=1 / y=2, the first closing a loop by its dedent, or nothing
Tails == {<<>>, <<Assign(0, "y", Lit(1)), Assign(0, "y", Lit(2))>>}

\* x=0 / while x<3 / .x=x+1 / .goto 1 / y=1
GotoInLoopProgram ==
    <<Assign(0, "x", Lit(0)), WhileL(0, Lt(Var("x"), Lit(3))),
      Assign(1, "x", Add(Var("x"), Lit(1))), GotoL(1, 1), Assign(0, "y", Lit(1))>>

\* x=0 / while / .x=1 / if 1==1 / .exit_
ExitProgram ==
    <<Assign(0, "x", Lit(0)), WhileL(0, [op |-> "none"]), Assign(1, "x", Lit(1)),
      IfL(0, True), ExitL(1)>>

\* def f_ / .if 1==2 / ..x=9 / x=0 / while x<2 / .x=x+1 / .f_ / y=1 / y=2
LoopCallProgram ==
    <<DefL(0, "f", <<>>), IfL(1, False), Assign(2, "x", Lit(9)), Assign(0, "x", Lit(0)),
      WhileL(0, Lt(Var("x"), Lit(2))), Assign(1, "x", Add(Var("x"), Lit(1))),
      CallL(1, "f", <<>>), Assign(0, "y", Lit(1)), Assign(0, "y", Lit(2))>>

\* x=0 / while x<2 / .if x==5 / ..y=7 / .x=x+1 / z=1
NestedIfLoopProgram ==
    <<Assign(0, "x", Lit(0)), WhileL(0, Lt(Var("x"), Lit(2))),
      IfL(1, Eq(Var("x"), Lit(5))), Assign(2, "y", Lit(7)),
      Assign(1, "x", Add(Var("x"), Lit(1))), Assign(0, "z", Lit(1))>>

\* x=0 / while x<2 / .x=x+1 / .while x==2 / ..y=1: two loop-frames are open at
\* the end of the lines
TwoLoopsProgram ==
    <<Assign(0, "x", Lit(0)), WhileL(0, Lt(Var("x"), Lit(2))),
      Assign(1, "x", Add(Var("x"), Lit(1))), WhileL(1, Eq(Var("x"), Lit(2))),
      Assign(2, "y", Lit(1))>>

LoopPrograms ==
    { CountLoop(n, tail) :
        n \in (0..MaxLoopBound)
                \cup {MAX_LOOP_ITERATIONS - 1, MAX_LOOP_ITERATIONS, MAX_LOOP_ITERATIONS + 1},
        tail \in Tails }
        \cup {ForeverLoop(tail) : tail \in Tails}
        \cup GotoPrograms
        \cup {WhileProgram, GotoInLoopProgram, ExitProgram, GotoSelfProgram,
              LoopCallProgram, NestedIfLoopProgram,
              TwoLoopsProgram}

(***************************************************************************)
(* run_program.                                                            *)
(***************************************************************************)
\* the interpreter object as the handlers see it
Self ==
    [variables |-> variables, functions |-> functions, loop_stack |-> loop_stack,
     if_stack |-> if_stack, else_stack |-> else_stack,
     defining_function |-> defining_function, function_stack |-> function_stack,
     current_line_number |-> current_line_number, aliases |-> aliases,
     last_output |-> last_output, output |-> output, handle_while |-> handle_while,
     exc |-> "none", msg |-> "", target |-> 0, captured |-> FALSE]

\* the object's fields after a call
Commit(s) ==
    /\ variables' = s.variables
    /\ functions' = s.functions
    /\ loop_stack' = s.loop_stack
    /\ if_stack' = s.if_stack
    /\ else_stack' = s.else_stack
    /\ defining_function' = s.defining_function
    /\ function_stack' = s.function_stack
    /\ current_line_number' = s.current_line_number
    /\ aliases' = s.aliases
    /\ last_output' = s.last_output
    /\ output' = s.output

\* GuythonInterpreter.__init__ and the head of run_program
Init ==
    /\ program_lines \in Programs
    /\ line_number = 0
    /\ goto_jump_count = 0
    /\ pc = "running"
    /\ raised = ""
    /\ variables = EmptyMap
    /\ functions = EmptyMap
    /\ loop_stack = <<>>
    /\ if_stack = <<>>
    /\ else_stack = <<>>
    /\ defining_function = <<>>
    /\ function_stack = <<>>
    /\ current_line_number = 0
    /\ aliases = EmptyMap
    /\ last_output = NoneV
    /\ output = <<>>
    /\ handle_while = FALSE
    /\ original_line = <<>>
    /\ result = <<>>
    /\ dispatched = 0

\* what the body of run_program's while does next: run_line on the line under
\* the cursor, or execute_remaining_loops once the lines are exhausted
Outcome ==
    IF line_number < Len(program_lines)
    THEN RunLine(Self, program_lines[line_number + 1], line_number + 1)
    ELSE ExecuteRemaining(Self)

\* OutOfRange with the upper bound one too far
OutOfRangeLate(target) == target < 1 \/ target > Len(program_lines) + 1

\* if target_line < 1 or target_line > len(lines)
OutOfRange(target) == target < 1 \/ target > Len(program_lines)

\* CeilingPassed with >= for >
CeilingPassedEarly(count) == count >= goto_max_jumps

\* CeilingPassed one jump later
CeilingPassedLate(count) == count > goto_max_jumps + 1

\* if self.goto_jump_count > self.goto_max_jumps
CeilingPassed(count) == count > goto_max_jumps

\* CursorOf without the conversion to a 0-based index
CursorOfNext(target) == target

\* line_number = target_line - 1
CursorOf(target) == target - 1

\* run_line returned: line_number += 1
Dispatch ==
    /\ pc = "running"
    /\ line_number < Len(program_lines)
    /\ \E o \in {Outcome} :
       /\ o.exc = "none"
       /\ Commit(o)
       /\ line_number' = line_number + 1
       /\ dispatched' = dispatched + 1
       /\ UNCHANGED <<program_lines, goto_jump_count, pc, raised, handle_while, original_line, result>>

\* except GuythonGotoException, the target in range and the ceiling not reached
GotoJump ==
    /\ pc = "running"
    /\ line_number < Len(program_lines)
    /\ \E o \in {Outcome} :
       /\ o.exc = "goto"
       /\ ~OutOfRange(o.target)
       /\ ~CeilingPassed(goto_jump_count + 1)
       /\ Commit(o)
       /\ goto_jump_count' = goto_jump_count + 1
       /\ line_number' = CursorOf(o.target)
       /\ dispatched' = dispatched + 1
       /\ UNCHANGED <<program_lines, pc, raised, handle_while, original_line, result>>

\* except GuythonGotoException: the target is out of range
GotoOutOfRange ==
    /\ pc = "running"
    /\ line_number < Len(program_lines)
    /\ \E o \in {Outcome} :
       /\ o.exc = "goto"
       /\ OutOfRange(o.target)
       /\ Commit(o)
       /\ pc' = "raised"
       /\ raised' = "Goto target line is out of range"
       /\ dispatched' = dispatched + 1
       /\ UNCHANGED <<program_lines, line_number, goto_jump_count, handle_while, original_line, result>>

\* except GuythonGotoException: the jump counter passes goto_max_jumps
GotoMaxJumps ==
    /\ pc = "running"
    /\ line_number < Len(program_lines)
    /\ \E o \in {Outcome} :
       /\ o.exc = "goto"
       /\ ~OutOfRange(o.target)
       /\ CeilingPassed(goto_jump_count + 1)
       /\ Commit(o)
       /\ goto_jump_count' = goto_jump_count + 1
       /\ pc' = "raised"
       /\ raised' = "Maximum goto jumps exceeded"
       /\ dispatched' = dispatched + 1
       /\ UNCHANGED <<program_lines, line_number, handle_while, original_line, result>>

\* os._exit(0) was reached
ProcessExit ==
    /\ pc = "running"
    /\ \E o \in {Outcome} :
       /\ o.exc = "exit"
       /\ Commit(o)
       /\ pc' = "exited"
       /\ dispatched' = dispatched + (IF line_number < Len(program_lines) THEN 1 ELSE 0)
       /\ UNCHANGED <<program_lines, line_number, goto_jump_count, raised, handle_while, original_line, result>>

\* the lines are exhausted and execute_remaining_loops returned
Return ==
    /\ pc = "running"
    /\ line_number = Len(program_lines)
    /\ \E o \in {Outcome} :
       /\ o.exc = "none"
       /\ Commit(o)
       /\ pc' = "returned"
       /\ UNCHANGED <<program_lines, line_number, goto_jump_count, raised, handle_while, original_line, result, dispatched>>

\* the lines are exhausted and execute_remaining_loops raised
RemainingLoopRaised ==
    /\ pc = "running"
    /\ line_number = Len(program_lines)
    /\ \E o \in {Outcome} :
       /\ o.exc = "GuythonRuntimeError"
       /\ Commit([o EXCEPT !.exc = "none"])
       /\ pc' = "raised"
       /\ raised' = o.msg
       /\ UNCHANGED <<program_lines, line_number, goto_jump_count, handle_while, original_line, result, dispatched>>

Next ==
    \/ Dispatch
    \/ GotoJump
    \/ GotoOutOfRange
    \/ GotoMaxJumps
    \/ ProcessExit
    \/ Return

\* the interpreter as the source defines it
Spec == Init /\ [][Next]_vars

\* run_program is sequential code: its loop goes on as long as it can
SpecFair == Spec /\ WF_vars(Next)

\* the interpreter object given the _handle_while attribute, on loop programs
InitLoop ==
    /\ program_lines \in LoopPrograms
    /\ line_number = 0
    /\ goto_jump_count = 0
    /\ pc = "running"
    /\ raised = ""
    /\ variables = EmptyMap
    /\ functions = EmptyMap
    /\ loop_stack = <<>>
    /\ if_stack = <<>>
    /\ else_stack = <<>>
    /\ defining_function = <<>>
    /\ function_stack = <<>>
    /\ current_line_number = 0
    /\ aliases = EmptyMap
    /\ last_output = NoneV
    /\ output = <<>>
    /\ handle_while = TRUE
    /\ original_line = <<>>
    /\ result = <<>>
    /\ dispatched = 0

NextLoop ==
    \/ Dispatch
    \/ GotoJump
    \/ GotoOutOfRange
    \/ GotoMaxJumps
    \/ ProcessExit
    \/ Return
    \/ RemainingLoopRaised

SpecLoop == InitLoop /\ [][NextLoop]_vars

(***************************************************************************)
(* The text of a line before tokenisation: _strip_comments.  A text is a   *)
(* sequence of characters.                                                 *)
(***************************************************************************)
\* str.find(ch, start) with 1-based positions: 0 where Python gives -1
Find(line, ch, start) ==
    IF \E k \in start..Len(line) : line[k] = ch
    THEN CHOOSE k \in start..Len(line) :
            /\ line[k] = ch
            /\ \A j \in start..(k - 1) : line[j] # ch
    ELSE 0

RECURSIVE LStrip(_)
LStrip(line) ==
    IF line # <<>> /\ Head(line) = " " THEN LStrip(Tail(line)) ELSE line

RECURSIVE RStrip(_)
RStrip(line) ==
    IF line # <<>> /\ line[Len(line)] = " "
    THEN RStrip(SubSeq(line, 1, Len(line) - 1))
    ELSE line

\* str.strip()
Strip(line) == RStrip(LStrip(line))

\* a scan that copies an unmatched '{' and goes on
RECURSIVE StripFromCopying(_, _, _)
StripFromCopying(line, i, acc) ==
    IF i > Len(line) THEN acc
    ELSE IF line[i] = "{" /\ Find(line, "}", i + 1) # 0
         THEN StripFromCopying(line, Find(line, "}", i + 1) + 1, acc)
         ELSE StripFromCopying(line, i + 1, Append(acc, line[i]))

\* the while loop of _strip_comments from position i on, acc being the
\* characters kept so far
RECURSIVE StripFrom(_, _, _)
StripFrom(line, i, acc) ==
    IF i > Len(line) THEN acc
    ELSE IF line[i] = "{"
         THEN LET end == Find(line, "}", i + 1)
              IN  IF end # 0 THEN StripFrom(line, end + 1, acc) ELSE acc
         ELSE StripFrom(line, i + 1, Append(acc, line[i]))

\* _strip_comments
StripComments(line) == Strip(StripFrom(line, 1, <<>>))

MaxText == 5

\* the characters a text is made of: a letter, a blank, the braces, a quote
Characters == {"a", " ", "{", "}", "\""}

Texts == {<<>>} \cup SeqsUpTo(Characters, MaxText)

InitText ==
    /\ program_lines = <<>>
    /\ line_number = 0
    /\ goto_jump_count = 0
    /\ pc = "text"
    /\ raised = ""
    /\ variables = EmptyMap
    /\ functions = EmptyMap
    /\ loop_stack = <<>>
    /\ if_stack = <<>>
    /\ else_stack = <<>>
    /\ defining_function = <<>>
    /\ function_stack = <<>>
    /\ current_line_number = 0
    /\ aliases = EmptyMap
    /\ last_output = NoneV
    /\ output = <<>>
    /\ handle_while = FALSE
    /\ original_line \in Texts
    /\ result = <<>>
    /\ dispatched = 0

\* line = self._strip_comments(line)
StripLine ==
    /\ pc = "text"
    /\ result' = StripComments(original_line)
    /\ pc' = "stripped"
    /\ UNCHANGED <<program_lines, line_number, goto_jump_count, raised, variables,
                   functions, loop_stack, if_stack, else_stack, defining_function,
                   function_stack, current_line_number, aliases, last_output,
                   output, handle_while, original_line, dispatched>>

\* _strip_comments applied to what it returned
StripAgain ==
    /\ pc = "stripped"
    /\ result' = StripComments(result)
    /\ pc' = "stripped again"
    /\ UNCHANGED <<program_lines, line_number, goto_jump_count, raised, variables,
                   functions, loop_stack, if_stack, else_stack, defining_function,
                   function_stack, current_line_number, aliases, last_output,
                   output, handle_while, original_line, dispatched>>

NextText ==
    \/ StripLine
    \/ StripAgain

SpecText == InitText /\ [][NextText]_vars

(***************************************************************************)
(* Properties.                                                             *)
(***************************************************************************)
\* run_program is about to call run_line
Dispatching == pc = "running" /\ line_number < Len(program_lines)

\* the source line under run_program's cursor
Current == program_lines[line_number + 1]

\* what run_line prints for an error of kind exc with message msg at line n
ReportOf(n, exc, msg) == [k |-> "report", line |-> n, exc |-> exc, msg |-> msg]

PrintOf(v) == [k |-> "print", v |-> v]

\* an error with this message has been reported by run_line
Reported(msg) ==
    \E j \in 1..Len(output) : output[j].k = "report" /\ output[j].msg = msg

LoopCeilingMsg == "Loop exceeded maximum iterations"

GotoCeilingMsg == "Maximum goto jumps exceeded"

\* the program is x=0 / if <false> / <deeper lines> / x=x+10
FalseIfProgram == program_lines \in IfPrograms /\ program_lines[2].expr = False

\* C1: after an if header at depth d whose condition is false, a line at
\* depth > d changes no variable and no alias, prints nothing, pushes no
\* frame, defines no function, and neither jumps nor exits; the first line
\* at depth <= d is then executed normally.  Stated on the programs
\* x=0 / if 1==2 / <one or more deeper lines of every kind> / x=x+10.
C1_FalseIfSuppressesNested ==
    [][ (FalseIfProgram /\ Dispatching /\ line_number >= 2) =>
            IF line_number < Len(program_lines) - 1
            THEN /\ UNCHANGED <<variables, aliases, output, functions, if_stack,
                               loop_stack, defining_function, goto_jump_count, pc>>
                 /\ line_number' = line_number + 1
            ELSE variables' = Bind(variables, "x", IntV(10)) ]_vars

\* C2: the program i=0 / while i<3 / .print i / .i=i+1, run through
\* run_program, prints 0, 1, 2 in that order and ends with i bound to 3:
\* the captured body runs once for each time the condition is true.
C2_WhileExample ==
    (program_lines = WhileProgram /\ pc = "returned") =>
        /\ output = <<PrintOf(IntV(0)), PrintOf(IntV(1)), PrintOf(IntV(2))>>
        /\ variables["i"] = IntV(3)

\* the loop of a program x=0 / while .. / .x=x+1 / <tail> has been executed
LoopClosed == pc # "running" \/ line_number > 3

\* C3: a loop whose condition is true on every check runs its body exactly
\* MAX_LOOP_ITERATIONS (10,000) times and then raises the ceiling error,
\* and a loop whose condition first becomes false after exactly 10,000
\* completed iterations ends without error.  The body x=x+1 completes on
\* every pass and counts the iterations in x.
C3_LoopCeiling ==
    \A tail \in Tails :
        /\ (program_lines \in {ForeverLoop(tail), CountLoop(MAX_LOOP_ITERATIONS + 1, tail)}
                /\ LoopClosed) =>
              /\ variables["x"] = IntV(MAX_LOOP_ITERATIONS)
              /\ (Reported(LoopCeilingMsg) \/ raised = LoopCeilingMsg)
        /\ (program_lines = CountLoop(MAX_LOOP_ITERATIONS, tail) /\ LoopClosed) =>
              /\ variables["x"] = IntV(MAX_LOOP_ITERATIONS)
              /\ ~Reported(LoopCeilingMsg)
              /\ raised = ""

\* a never-ending loop closed by the end of the program was cut at the ceiling
C3_Witness ==
    /\ program_lines = ForeverLoop(<<>>)
    /\ pc = "raised"
    /\ raised = LoopCeilingMsg
    /\ variables["x"] = IntV(MAX_LOOP_ITERATIONS)

C5_OutOfRangeGoto ==
    /\ [][ (Dispatching /\ Outcome.exc = "goto"
                /\ Outcome.target \notin 1..Len(program_lines)) =>
             /\ pc' = "raised"
             /\ raised' = "Goto target line is out of range"
             /\ goto_jump_count' = goto_jump_count
             /\ line_number' = line_number ]_vars
    /\ [][pc = "running"]_vars

\* goto 9 of x=0 / goto 4 / x=x+1 / goto 9 has raised after one jump
C5_Witness ==
    /\ program_lines = GotoTwiceProgram
    /\ pc = "raised"
    /\ raised = "Goto target line is out of range"
    /\ goto_jump_count = 1
    /\ line_number = 3

\* C6: after a successful goto N the next line dispatched is source line N,
\* and dispatch goes on with N+1, N+2, ... until the end or the next goto:
\* x=0 / goto 3 / x=x+1 / x=x+10 ends with x = 11, and with goto 4 with 10.
C6_GotoResumesAtTarget ==
    /\ [][ (Dispatching /\ Outcome.exc = "goto" /\ pc' = "running") =>
             line_number' + 1 = Outcome.target ]_vars
    /\ [][ (Dispatching /\ Outcome.exc = "none") =>
             line_number' = line_number + 1 ]_vars
    /\ [](pc = "returned" =>
             /\ program_lines = GotoProgram(3) => variables["x"] = IntV(11)
             /\ program_lines = GotoProgram(4) => variables["x"] = IntV(10))

\* goto 3 was followed by lines 3 and 4
C6_Witness ==
    /\ program_lines = GotoProgram(3)
    /\ pc = "returned"
    /\ goto_jump_count = 1
    /\ variables["x"] = IntV(11)

\* C7: a goto that is executed reaches run_program as a jump from wherever
\* it is executed, a function body and an eval string included, and is
\* never turned into an error that a handler reports.
C7_GotoAlwaysReachesDriver ==
    /\ ~Reported("Error in eval")
    /\ ~Reported("Error in while loop")
    /\ (program_lines = GotoInFunctionProgram /\ line_number > 4) => goto_jump_count = 1
    /\ (program_lines = GotoInEvalProgram /\ line_number > 1) => goto_jump_count = 1

\* what the try block of run_line makes of the line under the cursor; a blank
\* line does not reach it
Tried ==
    IF Current.cmd = "blank" THEN Self
    ELSE RunLineTry([Self EXCEPT !.current_line_number = line_number + 1], Current)

\* C8: a GuythonSyntaxError or GuythonRuntimeError raised while run_line
\* dispatches a line is caught in run_line and reported with the line
\* number, and run_program goes on with the next line; run_line lets
\* nothing but the goto signal escape.
C8_ErrorsCaughtInRunLine ==
    /\ [](Dispatching => Outcome.exc \in {"none", "goto", "exit"})
    /\ [][ (Dispatching /\ Tried.exc \in {"GuythonSyntaxError", "GuythonRuntimeError"}) =>
             /\ pc' = "running"
             /\ line_number' = line_number + 1
             /\ output' = Append(Tried.output,
                                 ReportOf(line_number + 1, Tried.exc, Tried.msg)) ]_vars
    /\ [](program_lines = ErrorProgram /\ pc = "returned" =>
             /\ variables["x"] = IntV(2)
             /\ Len(output) = 5
             /\ \A j \in 1..5 : output[j].k = "report" /\ output[j].line = j)

\* the five failing lines of the error program were reported and x=2 was run
C8_Witness ==
    /\ program_lines = ErrorProgram
    /\ pc = "returned"
    /\ variables = Bind(EmptyMap, "x", IntV(2))
    /\ output[2] = ReportOf(2, "GuythonSyntaxError", "Invalid variable name")
    /\ output[5] = ReportOf(5, "GuythonRuntimeError", "Eval requires string argument")

\* C9: once the loop ceiling or the goto ceiling has been exceeded, no further
\* source line is dispatched, whether the loop was closed by a dedenting
\* line or by the end of the program.
C9_CeilingIsFatal ==
    [][ Dispatching =>
            /\ ~Reported(LoopCeilingMsg)
            /\ raised \notin {LoopCeilingMsg, GotoCeilingMsg} ]_vars

\* a call at depth 0 is under the cursor: the dispatcher closes every block
\* and hands the line to _handle_function_call
Calling == Dispatching /\ Current.cmd = "call" /\ Current.indent = 0

\* the call under the cursor names no function or passes the wrong number of
\* arguments
BadCall ==
    \/ Current.name \notin DOMAIN functions
    \/ Len(Current.args) # Len(functions[Current.name].args)

\* the body the function called will have once the line under the cursor has
\* sealed a definition still open
BodyOfCalled ==
    IF defining_function # <<>> /\ defining_function[1] = Current.name
    THEN function_stack
    ELSE functions[Current.name].body

\* the body of the function called is made of print lines only
CalledBodyPrints ==
    \A j \in 1..Len(BodyOfCalled) : BodyOfCalled[j].cmd = "print"

\* every passed argument has a value
ArgumentsEvaluate ==
    \A j \in 1..Len(Current.args) : EvaluateArgument(Current.args[j], variables).ok

\* the step fails the call with one of msgs: after the lines of printed,
\* nothing but the report is written, and the variables are as they were
CallFailsWith(msgs, printed) ==
    /\ variables' = variables
    /\ \E msg \in msgs :
          output' = output \o printed
                      \o <<ReportOf(line_number + 1, "GuythonRuntimeError", msg)>>
    /\ line_number' = line_number + 1

\* the line print("DEBUG: Error evaluating argument: ...") of the call handler
DebugLine == <<[k |-> "debug"]>>

\* the step prints once for each line of the body called, and nothing else
BodyDispatched ==
    /\ Len(output') = Len(output) + Len(BodyOfCalled)
    /\ \A j \in 1..Len(output) : output'[j] = output[j]
    /\ \A j \in 1..Len(BodyOfCalled) : output'[Len(output) + j].k = "print"

\* f_ 2,3 prints 5 where the body of f is print a+b, and 5 then 2 where it is
\* print a+b / print a; the variables are as they were
SumExample ==
    (Dispatching /\ Current = CallL(0, "f", <<Lit(2), Lit(3)>>)) =>
        /\ program_lines = SumProgram =>
              output' = Append(output, PrintOf(IntV(5)))
        /\ program_lines = CallProgram =>
              output' = output \o <<PrintOf(IntV(5)), PrintOf(IntV(2))>>
        /\ variables' = variables

Parameters == functions[Current.name].args

\* C11: every argument expression of a call is evaluated against the
\* variables as they were immediately before the call, before any parameter
\* is rebound: after the arguments are bound, each parameter holds the value
\* its argument has in the caller's environment, and
\* a=7 / def f_ a,b / .print b / f_ 2,a prints 7.
C11_ArgumentsSeeCallerEnvironment ==
    /\ (Calling /\ ~BadCall /\ ArgumentsEvaluate) =>
          \E bound \in {BindArguments(Self, Parameters, Current.args, 1)} :
              /\ bound.exc = "none"
              /\ \A j \in 1..Len(Parameters) :
                    bound.variables[Parameters[j]]
                        = EvaluateArgument(Current.args[j], variables).v
    /\ (program_lines = ShadowProgram /\ pc = "returned") =>
          output = <<PrintOf(IntV(7)), PrintOf(IntV(7))>>

\* C12: when a call ends, normally, by an argument that does not evaluate or
\* by a goto raised in the body, every parameter name is bound to the value
\* it had immediately before the call, or absent if it was absent, while
\* what the body bound to other names persists; this holds for the inner
\* calls of a nested and of a recursive chain as well, which the lines z=a
\* and c=n, run after an inner call has returned, record.
C12_ParametersRestored ==
    /\ [][ (Calling /\ ~BadCall) =>
             \A j \in 1..Len(Parameters) :
                 IF Parameters[j] \in DOMAIN variables
                 THEN /\ Parameters[j] \in DOMAIN variables'
                      /\ variables'[Parameters[j]] = variables[Parameters[j]]
                 ELSE Parameters[j] \notin DOMAIN variables' ]_vars
    /\ [](program_lines = NestedCallProgram /\ pc = "returned" =>
             variables = [n \in {"a", "x", "y", "z"} |->
                             CASE n = "a" -> IntV(7) [] n = "x" -> IntV(1)
                               [] n = "y" -> IntV(2) [] n = "z" -> IntV(1)])
    /\ [](program_lines = RecursiveProgram /\ pc = "returned" =>
             variables = [n \in {"n", "c", "d", "x"} |->
                             CASE n = "n" -> IntV(5) [] n = "d" -> IntV(2)
                               [] n = "c" -> IntV(0) [] n = "x" -> IntV(1)])
    /\ [](program_lines = GotoFromCallProgram /\ pc = "returned" =>
             /\ goto_jump_count = 1
             /\ variables = [n \in {"a", "x", "y"} |->
                                CASE n = "a" -> IntV(7) [] n = "x" -> IntV(7)
                                  [] n = "y" -> IntV(3)])
    /\ [](program_lines = CallProgram /\ line_number = 9 =>
             variables = Bind(EmptyMap, "a", IntV(7)))

\* the recursive chain r_ 0, r_ 1, r_ 2 has returned with n as before the
\* first call and c set by the outermost call last
C12_Witness ==
    /\ program_lines = RecursiveProgram
    /\ pc = "returned"
    /\ variables["n"] = IntV(5)
    /\ variables["d"] = IntV(2)
    /\ variables["c"] = IntV(0)

\* the interpreter as run_line has it once the body being captured is sealed
Sealed ==
    [Self EXCEPT !.functions[defining_function[1]].body = function_stack,
                 !.defining_function = <<>>,
                 !.function_stack = <<>>]

\* C13: after a def header at depth d, every following non-blank line with
\* depth > d is appended, in order, to the function's body and has no other
\* effect (the line counter aside); the first following line with depth
\* <= d seals the body, which then equals exactly the captured lines, and
\* is itself dispatched as it would be with no definition open.
C13_DefinitionCapture ==
    /\ [][ (Dispatching /\ defining_function # <<>> /\ Current.cmd # "blank") =>
             IF Current.indent > defining_function[2]
             THEN /\ function_stack' = Append(function_stack, Current)
                  /\ line_number' = line_number + 1
                  /\ UNCHANGED <<variables, functions, loop_stack, if_stack, else_stack,
                                 defining_function, aliases, last_output, output,
                                 goto_jump_count, pc, raised>>
             ELSE /\ Current.cmd # "def" =>
                        functions'[defining_function[1]].body = function_stack
                  /\ defining_function' # <<>> => Current.cmd = "def"
                  /\ \E o \in {RunLine(Sealed, Current, line_number + 1)} :
                        Outcome = o ]_vars
    /\ [](program_lines = CaptureProgram /\ pc = "returned" =>
             /\ functions["f"].body
                    = SubSeq(CaptureProgram, 2, 6) \o SubSeq(CaptureProgram, 8, 13)
             /\ variables = Bind(EmptyMap, "x", IntV(1))
             /\ output = <<>>
             /\ aliases = EmptyMap
             /\ if_stack = <<>>)

\* the eleven lines of every kind under def f_ were captured and x=1 sealed
\* the body and was run
C13_Witness ==
    /\ program_lines = CaptureProgram
    /\ pc = "returned"
    /\ Len(functions["f"].body) = 11
    /\ functions["f"].body[5].cmd = "def"
    /\ defining_function = <<>>
    /\ variables = Bind(EmptyMap, "x", IntV(1))

\* C14: for every identifier x that matches [A-Za-z_][A-Za-z0-9_]* and is
\* neither an allow-listed function name nor one of import, print, if,
\* while, def, goto, eval, the line x=expr dispatched outside any block
\* binds x to the value of expr, and a following evaluation of x returns
\* that value.  Stated on the programs <name>=1 / y=<name>.
C14_AssignmentBinds ==
    \A name \in AssignedNames :
        (ValidateVariableName(name) /\ program_lines = AssignProgram(name)) =>
            /\ (line_number >= 1) =>
                  (name \in DOMAIN variables /\ variables[name] = IntV(1))
            /\ (pc = "returned") =>
                  ("y" \in DOMAIN variables /\ variables["y"] = IntV(1))

\* names that no program binds and the allow-list does not hold
UnboundNames == {"foo", "q"}

\* C15: evaluating a call expression whose function name is neither bound
\* in the variables nor in the allow-list fails with GuythonSecurityError,
\* not with GuythonRuntimeError; the line foo(1) is reported with that kind.
C15_UnknownFunctionIsSecurityError ==
    /\ \A fn \in UnboundNames \ DOMAIN variables :
          \E r \in {Evaluate(Call(Var(fn), <<Lit(1)>>), variables)} :
              ~r.ok /\ r.exc = "GuythonSecurityError"
    /\ (program_lines = EvaluatorProgram /\ line_number >= 2) =>
          output[1] = ReportOf(2, "GuythonSecurityError", "Error evaluating expression")

\* the objects of the attribute accesses tried: a string literal, a number
\* literal and every name
AttributeObjects == {Str(Abc), Lit(5)} \cup {Var(id) : id \in Identifiers \cup UnboundNames}

\* C16: the evaluator resolves obj.attr only when obj is an identifier bound
\* in the variables to an imported namespace; attribute access on any other
\* value (a string or number literal, a name bound to a number, a string or
\* an array) is rejected and yields no attribute or method of the host.
C16_AttributeOnlyOfNamespace ==
    /\ \A obj \in AttributeObjects : \A attr \in {"upper", "real", "append"} :
          Evaluate(Attr(obj, attr), variables).ok =>
              /\ obj.op = "var"
              /\ obj.id \in DOMAIN variables
              /\ variables[obj.id].t = "namespace"
    /\ (program_lines = EvaluatorProgram /\ line_number >= 3) =>
          output[2] = ReportOf(3, "GuythonRuntimeError", "Error evaluating expression")

\* the expressions tried that reference the identifier id
Referencing(id) ==
    {Var(id), Attr(Var(id), "z"), Attr(Var(id), "upper"), Add(Var(id), Lit(1)),
     Add(Lit(1), Var(id)), Eq(Var(id), Lit(1)), Add(Attr(Var(id), "z"), Lit(1))}

\* C17: evaluating an expression that references an identifier bound neither
\* in the variables nor in the allow-list, the object of an attribute access
\* included, fails with GuythonRuntimeError and leaves the variables as they
\* were: the lines q and q.z are reported and change no variable.
C17_UnboundNameFails ==
    /\ [](\A id \in (Identifiers \cup UnboundNames) \ (DOMAIN variables \cup SAFE_FUNCTIONS) :
             \A e \in Referencing(id) :
                 \E r \in {Evaluate(e, variables)} :
                     ~r.ok /\ r.exc = "GuythonRuntimeError")
    /\ [][ (Dispatching /\ program_lines = EvaluatorProgram /\ line_number \in {5, 6}) =>
             /\ variables' = variables
             /\ output' = Append(output, ReportOf(line_number + 1, "GuythonRuntimeError",
                                                  "Error evaluating expression"))
             /\ last_output' = last_output ]_vars

\* the lines q and q.z of the evaluator program were reported and x, y, z
\* are as the lines before left them
C17_Witness ==
    /\ program_lines = EvaluatorProgram
    /\ line_number = 7
    /\ output[3] = ReportOf(6, "GuythonRuntimeError", "Error evaluating expression")
    /\ output[4] = ReportOf(7, "GuythonRuntimeError", "Error evaluating expression")
    /\ variables["x"] = IntV(5)
    /\ variables["y"] = IntV(5)
    /\ variables["z"] = StrV(ExprL(0, Var("ABC")))

\* the arrays a parameter holds in a function body: [], [4] and, after two
\* calls of append, [4, 5, 6]
Arrays == {<<>>, <<IntV(4)>>, <<IntV(4), IntV(5), IntV(6)>>}

\* the interpreter inside a function body whose parameter arr holds items
WithArray(items) == [Self EXCEPT !.variables = Bind(@, "arr", ListV(items))]

\* index text that evaluates to the integer i
IndexExpr(i) == IF i < 0 THEN Sub(Lit(0), Lit(0 - i)) ELSE Lit(i)

\* the output of f_ [4] in the array program
ArrayOutput ==
    <<[k |-> "debug", v |-> ListV(<<IntV(4)>>)],
      PrintOf(IntV(4)),
      ReportOf(12, "GuythonRuntimeError", "Array index 5 out of bounds (0-0)"),
      ReportOf(12, "GuythonRuntimeError", "Array index -1 out of bounds (0-0)"),
      PrintOf(IntV(6)),
      ReportOf(12, "GuythonRuntimeError", "Array index 5 out of bounds (0-2)")>>

\* C18: reading arr[i] where arr is bound to an array of length n and i
\* evaluates to an integer: if i < 0 or i >= n the read fails with
\* GuythonRuntimeError whose message reports the bounds 0 to n-1 (0-2 for a
\* 3-element array and index 5), nothing is printed and last_output is
\* unchanged; if 0 <= i < n the result is element i, which is printed and
\* becomes last_output.
C18_ArrayRead ==
    /\ \A items \in Arrays : \A i \in (0 - 2)..MaxIndex :
          \E s \in {WithArray(items)} :
          \E done \in {HandleArrayAccess(s, Read(IndexExpr(i)))} :
              IF i < 0 \/ i >= Len(items)
              THEN /\ done.exc = "GuythonRuntimeError"
                   /\ done.msg = "Array index " \o ToString(i) \o " out of bounds (0-"
                                     \o ToString(Len(items) - 1) \o ")"
                   /\ done.output = s.output
                   /\ done.last_output = s.last_output
                   /\ done.variables = s.variables
              ELSE /\ done.exc = "none"
                   /\ done.output = Append(s.output, PrintOf(items[i + 1]))
                   /\ done.last_output = items[i + 1]
                   /\ done.variables = s.variables
    /\ HandleArrayAccess(WithArray(<<IntV(4), IntV(5), IntV(6)>>), Read(Lit(5))).msg
          = "Array index 5 out of bounds (0-2)"
    /\ (program_lines = ArrayProgram /\ line_number >= 12) =>
          SubSeq(output, 1, 6) = ArrayOutput

\* f_ [4] has read arr[0], failed on arr[5] and arr[0-1], appended 5 and 6,
\* read arr[2] and failed on arr[5] with the bounds 0-2
C18_Witness ==
    /\ program_lines = ArrayProgram
    /\ line_number = 12
    /\ SubSeq(output, 1, 6) = ArrayOutput
    /\ last_output = IntV(5)

\* C19: the line arr[i]=expr, where arr is bound to an array and
\* 0 <= i < len(arr), replaces element i by the value of expr and leaves
\* every other element and every other variable as it was: arr[1]=9 makes
\* [4, 5, 6] into [4, 9, 6], and the arr[1] that follows it prints 9.
C19_ArrayWrite ==
    /\ \E s \in {WithArray(<<IntV(4), IntV(5), IntV(6)>>)} :
       \E done \in {HandleAssignment(s, ArrayWriteL(1, Lit(9)))} :
          /\ done.exc = "none"
          /\ done.variables = Bind(s.variables, "arr", ListV(<<IntV(4), IntV(9), IntV(6)>>))
    /\ (program_lines = ArrayProgram /\ line_number >= 12) =>
          output[7] = PrintOf(IntV(9))

\* the line under the cursor goes into the body of the function being defined
Captured == defining_function # <<>> /\ Current.indent > defining_function[2]

\* the frames of stack below depth k, in order
Below(stack, k) == SelectSeq(stack, LAMBDA frame : frame[2] < k)

\* C20: for every dispatched non-blank line at depth k that is not captured
\* into a function body, when the line is classified every if-frame and
\* every loop-frame with depth >= k has been popped (the loop-frames
\* executed as they were popped) and every frame with depth < k is still
\* on its stack.
C20_BlocksClosedBeforeClassification ==
    (Dispatching /\ Current.cmd # "blank" /\ ~Captured) =>
        \E closed \in {CloseBlocks(CaptureOrSeal(Self, Current), Current.indent)} :
            closed.exc = "none" =>
                /\ closed.if_stack = Below(if_stack, Current.indent)
                /\ closed.loop_stack = Below(loop_stack, Current.indent)

\* the line under the cursor lies in the body of the innermost open loop
InLoopBody ==
    /\ Dispatching /\ Current.cmd # "blank" /\ ~Captured
    /\ loop_stack # <<>> /\ Current.indent > Top(loop_stack)[2]

\* C21: while a loop-frame with header depth d is open, a dispatched line
\* with depth > d is not executed: it is appended to the captured body of
\* the frame and changes neither the variables, the aliases, the else-frames,
\* the function table nor the output.
C21_BodyLinesOnlyCaptured ==
    [][InLoopBody =>
          /\ loop_stack' = [loop_stack EXCEPT ![Len(loop_stack)][3] = Append(@, Current)]
          /\ UNCHANGED <<variables, functions, aliases, else_stack, output>>]_vars

\* C22: a nested if block in the body of a while loop runs afresh in every
\* iteration of the loop, its lines executed under its own condition.  In
\* x=0 / while x<2 / .if x==5 / ..y=7 / .x=x+1 / z=1 the condition x==5 is
\* false in every iteration, so y=7 is never executed: y is never bound and
\* the loop leaves x = 2.
C22_NestedBlockRunsAfresh ==
    program_lines = NestedIfLoopProgram =>
        /\ "y" \notin DOMAIN variables
        /\ pc = "returned" => variables["x"] = IntV(2)

\* run_program has dispatched its last line and is about to call
\* execute_remaining_loops
LinesExhausted == pc = "running" /\ line_number = Len(program_lines)

Classified ==
    CloseBlocks(CaptureOrSeal([Self EXCEPT !.current_line_number = line_number + 1],
                              Current),
                Current.indent)

\* the interpreter as it was when the goto statement run by the line under
\* the cursor raised its signal: in the body of the function called, before
\* the call's finally clause, or at the goto line itself
RaisedAt ==
    IF Current.cmd = "call"
    THEN RunBlock(BindArguments(Classified, Classified.functions[Current.name].args,
                                Current.args, 1),
                  Classified.functions[Current.name].body, FALSE)
    ELSE Tried

\* the parameters of the call that the signal leaves on its way to run_program
EnclosingParameters ==
    IF Current.cmd = "call"
    THEN {Classified.functions[Current.name].args[j] :
            j \in 1..Len(Classified.functions[Current.name].args)}
    ELSE {}

\* run_program consumes a goto signal and goes on
Jumping == Dispatching /\ Outcome.exc = "goto" /\ pc' = "running"

\* the stacks, the function-capture state and the function table after the
\* step are those of r
SameFrames(r) ==
    /\ if_stack' = r.if_stack
    /\ else_stack' = r.else_stack
    /\ loop_stack' = r.loop_stack
    /\ defining_function' = r.defining_function
    /\ function_stack' = r.function_stack
    /\ functions' = r.functions

\* C24 as stated: after a jump the stacks, the function-capture state, the
\* function table and the variables are as they were when the goto statement
\* raised the signal.
C24_AsStated ==
    [][Jumping => \E r \in {RaisedAt} : SameFrames(r) /\ variables' = r.variables]_vars

\* C24: consuming a goto signal changes only the cursor and the jump
\* counter.  After the jump if_stack, else_stack, loop_stack, the
\* function-capture state and the function table are as they were when the
\* goto statement raised the signal, and so is every variable but the
\* parameters of a call the signal has left, which are as before that call;
\* a frame opened before the goto line is still open after the jump.
C24_GotoKeepsFrames ==
    /\ [][Jumping =>
            \E r \in {RaisedAt} :
                /\ SameFrames(r)
                /\ goto_jump_count' = goto_jump_count + 1
                /\ DOMAIN variables' \ EnclosingParameters
                      = DOMAIN r.variables \ EnclosingParameters
                /\ \A n \in DOMAIN variables' \ EnclosingParameters :
                      variables'[n] = r.variables[n]
                /\ \A n \in EnclosingParameters :
                      /\ n \in DOMAIN variables' <=> n \in DOMAIN variables
                      /\ n \in DOMAIN variables => variables'[n] = variables[n]]_vars
    /\ []((program_lines = GotoInIfProgram /\ goto_jump_count = 1 /\ line_number = 4) =>
             /\ if_stack = <<<<TRUE, 0>>>>
             /\ else_stack = <<<<FALSE, 0>>>>
             /\ variables = Bind(EmptyMap, "x", IntV(0)))

\* goto 6 in the body of f, called as f_ 3 with a = 7 before the call, has
\* been consumed: a is 7 again and y, bound in the body, is 3
C24_Witness ==
    /\ program_lines = GotoFromCallProgram
    /\ pc = "running"
    /\ goto_jump_count = 1
    /\ line_number = 5
    /\ variables = [n \in {"a", "y"} |-> IF n = "a" THEN IntV(7) ELSE IntV(3)]

\* the line under the cursor is a line of kind cmd at depth 0, which is
\* neither captured nor skipped, and its expression has a value
Computes(cmd) ==
    /\ Dispatching /\ Current.cmd = cmd /\ Current.indent = 0
    /\ Current.expr.op # "str"
    /\ Evaluate(Current.expr, variables).ok

\* a bare expression line with a value that is not None prints it and sets
\* last_output to it
ExpressionSetsLastOutput ==
    [][(Computes("expr") /\ Evaluate(Current.expr, variables).v # NoneV) =>
          /\ output' = Append(output, PrintOf(Evaluate(Current.expr, variables).v))
          /\ last_output' = Evaluate(Current.expr, variables).v]_vars

\* C25: a print statement that prints the value of a computed expression
\* sets last_output to that value, as a bare expression line whose value is
\* not None prints it and sets last_output to it.
C25_PrintSetsLastOutput ==
    /\ [][Computes("print") =>
            /\ output' = Append(output, PrintOf(Evaluate(Current.expr, variables).v))
            /\ last_output' = Evaluate(Current.expr, variables).v]_vars
    /\ ExpressionSetsLastOutput

\* a to the power b, with the empty product for b = 0
Raised(a, b) == IF b = 0 THEN 1 ELSE a ^ b

\* a ** b evaluates to a to the power b
PowEvaluates ==
    \A a \in 0..MaxPower, b \in 0..MaxPower :
        (program_lines = PowerProgram(a, b) /\ line_number >= 1) =>
            variables["x"] = IntV(Raised(a, b))

\* C26: for integers a and b >= 0 in a bounded range, evaluate gives for
\* a^b what it gives for a**b, a raised to the power b: after
\* x=a**b / y=a^b both x and y are bound to that power.
C26_CaretIsPower ==
    /\ PowEvaluates
    /\ \A a \in 0..MaxPower, b \in 0..MaxPower :
          (program_lines = PowerProgram(a, b) /\ line_number = 2) =>
              /\ "y" \in DOMAIN variables
              /\ variables["y"] = IntV(Raised(a, b))

\* the line under the cursor is an else that is not captured into a function
\* body, at the depth of the latest if header
ElseAtDepthOfIf ==
    /\ Dispatching /\ Current.cmd = "else" /\ ~Captured
    /\ else_stack # <<>> /\ Current.indent = Top(else_stack)[2]

\* C27: an else line at the depth of its if header is accepted and pushes a
\* frame whose activation is the complement of the if's branch taken, so
\* that the lines deeper than the else run if and only if the condition was
\* false: if <cond> / .x=1 / else / .x=2 / y=1 reports no error and ends with
\* x = 1 where cond is true and x = 2 where it is false.
C27_ElseAtDepthOfIf ==
    /\ [][ElseAtDepthOfIf =>
            /\ output' = output
            /\ if_stack' # <<>>
            /\ Top(if_stack') = <<Top(else_stack)[1], Current.indent>>]_vars
    /\ [](\A cond \in {False, True} :
             (program_lines = ElseProgram(cond) /\ pc = "returned") =>
                 /\ output = <<>>
                 /\ variables["x"] = IF cond = True THEN IntV(1) ELSE IntV(2))

\* every key of env is a name that _validate_variable_name accepts
ValidKeys(env) == \A n \in DOMAIN env : ValidateVariableName(n)

\* the variables between two lines have valid names
KeysValidBetweenLines == ValidKeys(variables)

\* the variables that the body of a function called finds have valid names
KeysValidInBody ==
    (Calling /\ ~BadCall) =>
        \E bound \in {BindArguments(Classified, Classified.functions[Current.name].args,
                                    Current.args, 1)} :
            ValidKeys(bound.variables)

\* the line <name>=1 for a name that is not valid is reported as a
\* GuythonSyntaxError and binds nothing
ReservedAssignmentFails ==
    \A name \in ReservedNames :
        (program_lines = ReservedAssignProgram(name) /\ pc = "returned") =>
            /\ variables = EmptyMap
            /\ Len(output) = 1
            /\ output[1].k = "report"
            /\ output[1].exc = "GuythonSyntaxError"

\* C28: in every state reached by dispatching assignment, definition and
\* call lines, every key of the variables matches the identifier pattern and
\* is neither an allow-listed function name nor a reserved word, between two
\* lines as well as in the body of a function called; a line that would bind
\* another name fails with GuythonSyntaxError and leaves the variables
\* unchanged.
C28_VariableNamesValid ==
    /\ KeysValidBetweenLines
    /\ KeysValidInBody
    /\ ReservedAssignmentFails

\* the line under the cursor is a def header that is accepted, for a name
\* that is in the function table already
Redefining ==
    /\ Dispatching /\ Current.cmd = "def" /\ ~Captured
    /\ Current.wellformed
    /\ ValidateVariableName(Current.name)
    /\ \A j \in 1..Len(Current.args) :
          Current.args[j] = "" \/ ValidateVariableName(Current.args[j])
    /\ Current.name \in DOMAIN functions

\* C29: a def header for a name that is already in the function table
\* replaces the entry's parameter list and body by the new definition; once
\* the new body is sealed, a call of the name binds only the new parameters
\* and dispatches only the new body lines.  After def f_ a / .x=a / f_ 1 /
\* def f_ b,c / .y=b+c the call f_ 2,4 binds y to 6 and leaves x at 1, and the
\* call f_ 4 is rejected for its number of arguments.
C29_RedefinitionReplaces ==
    /\ [][Redefining =>
            /\ functions'[Current.name] = [args |-> Current.args, body |-> <<>>]
            /\ defining_function' = <<Current.name, Current.indent>>
            /\ function_stack' = <<>>]_vars
    /\ []((program_lines = RedefineProgram /\ line_number >= 6) =>
             /\ functions["f"] = [args |-> <<"b", "c">>,
                                  body |-> <<Assign(1, "y", Add(Var("b"), Var("c")))>>]
             /\ variables["x"] = IntV(1)
             /\ variables["y"] = IntV(6)
             /\ DOMAIN variables \subseteq {"x", "y", "z"})
    /\ []((program_lines = RedefineProgram /\ pc = "returned") =>
             output = <<ReportOf(7, "GuythonRuntimeError", "Function expects args")>>)

\* f was defined a second time and the call f_ 2,4 ran the new body
C29_Witness ==
    /\ program_lines = RedefineProgram
    /\ line_number = 6
    /\ functions["f"].args = <<"b", "c">>
    /\ variables = [n \in {"x", "y"} |-> IF n = "x" THEN IntV(1) ELSE IntV(6)]
    /\ output = <<>>

\* the step reports a GuythonSyntaxError for the line under the cursor and
\* writes nothing else
SyntaxErrorReported ==
    /\ Len(output') = Len(output) + 1
    /\ output'[Len(output')].k = "report"
    /\ output'[Len(output')].exc = "GuythonSyntaxError"
    /\ output'[Len(output')].line = line_number + 1

\* the line under the cursor is an else, not captured into a function body
ElseDispatched == Dispatching /\ Current.cmd = "else" /\ ~Captured

\* an else with no if header processed before it fails
ElseWithoutIfFails ==
    [][(ElseDispatched /\ else_stack = <<>>) =>
          SyntaxErrorReported /\ if_stack' = <<>>]_vars

\* an else dispatched when the dedent before it has closed every if-frame
\* fails and pushes no frame
StaleElseFails ==
    [][(ElseDispatched /\ CloseIfs(if_stack, Current.indent) = <<>>) =>
          SyntaxErrorReported /\ if_stack' = <<>>]_vars

\* C30: an else line is accepted only while the if it pairs with is still
\* open.  With no if header processed, or with every if-frame closed by a
\* dedent before the else line, the else fails with GuythonSyntaxError and
\* pushes no frame; the else_stack entry of an if is discarded when its
\* if-frame is closed, so that no entry is left once no if-frame is open.
C30_ElseNeedsOpenIf ==
    /\ ElseWithoutIfFails
    /\ StaleElseFails
    /\ [](if_stack = <<>> => else_stack = <<>>)

\* where the span opened at position o of a text ends: at the next '}', or
\* at the end of the text when there is none
SpanEnd(t, o) == IF Find(t, "}", o + 1) # 0 THEN Find(t, "}", o + 1) ELSE Len(t)

\* position o of a text opens a span: a '{' that lies in no earlier span
RECURSIVE Opens(_, _)
Opens(t, o) ==
    /\ t[o] = "{"
    /\ \A p \in 1..(o - 1) : Opens(t, p) => SpanEnd(t, p) < o

InSpan(t, i) == \E o \in 1..i : Opens(t, o) /\ i <= SpanEnd(t, o)

\* the characters of a text that lie in no span, in order
RECURSIVE OutsideSpans(_, _)
OutsideSpans(t, n) ==
    IF n = 0 THEN <<>>
    ELSE OutsideSpans(t, n - 1) \o (IF InSpan(t, n) THEN <<>> ELSE <<t[n]>>)

Quote == "\""

\* C31: _strip_comments returns the characters that lie in no {...} span
\* (stripped of surrounding blanks), a span running from a '{' to the next
\* '}' wherever it occurs, inside quotes too, and to the end of the line
\* when no '}' follows; what it returns holds no '{', and applying it to
\* what it returned gives the same text again.
C31_StripComments ==
    [][/\ pc = "text" =>
            /\ result' = Strip(OutsideSpans(original_line, Len(original_line)))
            /\ \A k \in 1..Len(result') : result'[k] # "{"
            /\ original_line = <<Quote, "{", "a", "}", Quote>> => result' = <<Quote, Quote>>
            /\ original_line = <<"a", "{", "a", Quote>> => result' = <<"a">>
       /\ pc = "stripped" => result' = result]_vars

C31_Witness ==
    /\ pc = "stripped again"
    /\ original_line = <<Quote, "{", "a", "}", Quote>>
    /\ result = <<Quote, Quote>>

\* C32: evaluating the text of a single identifier that is bound in the
\* variables returns the bound value, whatever identifier matching the
\* naming rule it is, one with an underscore inside (a_b) included.
C32_IdentifierEvaluates ==
    \A name \in DOMAIN variables :
        ValidateVariableName(name) =>
            Evaluate(Var(name), variables) = Ok(variables[name])

\* the program has no function call and no eval line
PlainProgram ==
    \A k \in 1..Len(program_lines) : program_lines[k].cmd \notin {"call", "eval"}

\* run_program is over: it returned, raised, or the process was ended
Terminated == pc \in {"returned", "raised", "exited"}

\* C33: run_program on a program with no function call and no eval comes
\* to an end, by exhausting the lines or by an error raised out of it, and
\* by then its loop has called run_line at most (goto_max_jumps + 1) times
\* the number of lines: the jump ceiling cuts every goto cycle.
C33_Terminates ==
    PlainProgram =>
        <>(Terminated /\ dispatched <= (goto_max_jumps + 1) * Len(program_lines))

C33_Witness ==
    /\ program_lines = GotoSelfProgram
    /\ pc = "raised"
    /\ raised = "Maximum goto jumps exceeded"
    /\ dispatched = (goto_max_jumps + 1) * Len(program_lines)

\* the depths of the frames of a stack grow strictly from bottom to top
Increasing(stack) ==
    \A j \in 1..Len(stack), k \in 1..Len(stack) : j < k => stack[j][2] < stack[k][2]

\* every frame of the stack is shallower than depth k
Shallower(stack, k) == \A j \in 1..Len(stack) : stack[j][2] < k

C35_EmptyLineChangesNothing ==
    [][/\ (Dispatching /\ Current.cmd = "blank") =>
            /\ current_line_number' = line_number + 1
            /\ line_number' = line_number + 1
            /\ UNCHANGED <<variables, functions, loop_stack, if_stack, else_stack,
                           defining_function, function_stack, aliases, last_output,
                           output, goto_jump_count, pc>>
       /\ (program_lines = BlankProgram /\ pc' = "returned") =>
            /\ DOMAIN variables' = {"z", "n", "d"}
            /\ functions'["f"].body = <<Assign(1, "z", Lit(1)), Assign(1, "n", Lit(2))>>]_vars

\* the empty line inside the definition of f has been passed: the
\* definition is still open with the one line captured before it
C35_Witness ==
    /\ program_lines = BlankProgram
    /\ line_number = 7
    /\ current_line_number = 7
    /\ defining_function = <<"f", 0>>
    /\ function_stack = <<Assign(1, "z", Lit(1))>>
    /\ if_stack = <<>>

\* the line under the cursor is a call of a defined function that
\* _process_command hands to _handle_function_call: it is not captured
\* into a definition and not skipped under a false if-frame
CallExecuted ==
    /\ Dispatching
    /\ Current.cmd = "call"
    /\ Current.name \in DOMAIN functions
    /\ ~(defining_function # <<>> /\ Current.indent > defining_function[2])
    /\ \E st \in {CloseIfs(if_stack, Current.indent)} :
          ~(st # <<>> /\ ~Top(st)[1] /\ Current.indent > Top(st)[2])

\* C36: a function call leaves the caller's if_stack as it was immediately
\* before the call (the call line's own _close_blocks done), so the body
\* lines of the callee neither close nor open frames of the caller: in
\* def f_ / .if 1==2 / ..x=1 / if 1==1 / .if 1==1 / ..f_ / ..y=1 / z=1 the
\* line ..y=1 after the call is executed.
C36_CallKeepsIfStack ==
    [][/\ (CallExecuted /\ line_number' = line_number + 1
                        /\ goto_jump_count' = goto_jump_count) =>
            if_stack' = CloseIfs(if_stack, Current.indent)
       /\ (program_lines = CalleeIfProgram /\ pc' = "returned") =>
            "y" \in DOMAIN variables']_vars

\* the line under the cursor is a while header
WhileHeader == Dispatching /\ Current.cmd = "while"

\* the line under the cursor goes into the body of the definition that is open
CapturedByDefinition ==
    defining_function # <<>> /\ Current.indent > defining_function[2]

PrintExecuted ==
    /\ Dispatching
    /\ Current.cmd = "print"
    /\ ~(defining_function # <<>> /\ Current.indent > defining_function[2])
    /\ \E st \in {CloseIfs(if_stack, Current.indent)} :
          ~(st # <<>> /\ ~Top(st)[1] /\ Current.indent > Top(st)[2])

\* C38: a print line raises nothing to run_line and is never reported: it
\* writes exactly one line, in which a token that fails to evaluate stands
\* as [Error] and the other tokens as their values.  x=5 / print y /
\* print x, y, "abc" / print a_b / z=1 writes [Error], 5 [Error] abc and
\* [Error], and nothing else.
C38_PrintNeverRaises ==
    [][/\ PrintExecuted =>
            /\ pc' = "running"
            /\ line_number' = line_number + 1
            /\ Len(output') = Len(output) + 1
            /\ output'[Len(output')].k = "print"
            /\ SubSeq(output', 1, Len(output)) = output
       /\ (program_lines = PrintErrorProgram /\ pc' = "returned") =>
            output' = <<PrintOf(ErrorPiece),
                        PrintOf(Joined(<<IntV(5), ErrorPiece, StrV(Abc)>>)),
                        PrintOf(ErrorPiece)>>]_vars

\* print x, y, "abc" has been dispatched with y unbound
C38_Witness ==
    /\ program_lines = PrintErrorProgram
    /\ line_number = 3
    /\ pc = "running"
    /\ output = <<PrintOf(ErrorPiece), PrintOf(Joined(<<IntV(5), ErrorPiece, StrV(Abc)>>))>>

\* C39: when run_program has returned no function definition is open:
\* defining_function is None, no captured line is waiting in
\* function_stack, and the stored body of a function is the sequence of
\* deeper lines that followed its header, also when they are the last lines
\* of the program, as in def f_ / .z=1 / .n=2.
C39_NoDefinitionOpenAtReturn ==
    (pc = "returned") =>
        /\ defining_function = <<>>
        /\ function_stack = <<>>
        /\ (program_lines = OpenDefinitionProgram) =>
              functions["f"].body = <<Assign(1, "z", Lit(1)), Assign(1, "n", Lit(2))>>

====
